---- MODULE Spec2Model ----
(***************************************************************************)
(* A model of the KUSD keeper (frosty720/kusd-keeper): the vault monitor,  *)
(* the liquidation and take executors, the peg arbitrage service and the   *)
(* orchestrator's periodic tick.                                           *)
(*                                                                         *)
(* Each component has a specification of its own (SpecVault, SpecLiq,      *)
(* SpecBid, SpecPeg, SpecFlop, SpecFlap, SpecVat, SpecPrice, SpecAuction,  *)
(* SpecBark for the Bark handler, SpecArb for one arbitrage leg by leg,    *)
(* SpecHealth for the profit bookkeeping of a tick, SpecAuctionPrice and   *)
(* SpecRatio for the calculations); Spec is the orchestrator, KUSDKeeper,  *)
(* and SpecStop the orchestrator with its stop().  A component's           *)
(* specification leaves the variables of the other components at their     *)
(* initial values.  Chain reads are inputs: every read draws its result    *)
(* from a small set, or fails.                                             *)
(***************************************************************************)
EXTENDS Integers, Sequences, FiniteSets, TLC

VARIABLES
  \* configuration (KeeperConfig), fixed after construction
  mode, emergencyStop, clippers,
  \* VaultMonitor
  urns, vmSubscribed, scan, opportunities, frobSeen, lastRead, lastFailed,
  startLog,
  \* LiquidationExecutor (barks: the bark transactions awaiting a receipt)
  liq, dogData, barks, liquidationsTriggered,
  \* BiddingExecutor (takes: the take transactions awaiting a receipt)
  bid, takes, bidsExecuted, totalProfit,
  \* PegKeeperService
  now, lastArbTime, calls,
  \* KUSDKeeper
  keeperPc, timerOn, ticks, errors, stopCalled,
  \* FlopExecutor (dents: the dent transactions sent by the current call)
  flop, dents, flopBidsExecuted,
  \* FlapExecutor (flapTxs: the transactions sent by the current call)
  flap, flapTxs, flapBidsExecuted,
  \* ContractService: which of the optional contracts are configured
  flapperSet, flopperSet, sklcSet,
  \* VatBalanceManager (vatTxs: the transactions sent by the current call)
  vatMgr, vatTxs,
  \* PriceService
  priceCache, priceCall,
  \* AuctionMonitor
  activeAuctions, aucScan,
  \* the calculations, applied to given inputs
  priceCalc, ratioCalc,
  \* the Bark handler of AuctionMonitor under way
  barkCall,
  \* one peg arbitrage, leg by leg
  arb,
  \* performCheck's health record, and the phase of the tick
  health, healthTick

cfgVars    == <<mode, emergencyStop, clippers>>
vaultVars  == <<urns, vmSubscribed, scan, opportunities, frobSeen, lastRead,
               lastFailed, startLog>>
liqVars    == <<liq, dogData, barks, liquidationsTriggered>>
bidVars    == <<bid, takes, bidsExecuted, totalProfit>>
pegVars    == <<now, lastArbTime, calls>>
keeperVars == <<keeperPc, timerOn, ticks, errors, stopCalled>>
flopVars   == <<flop, dents, flopBidsExecuted>>
flapVars   == <<flap, flapTxs, flapBidsExecuted>>
contractVars == <<flapperSet, flopperSet, sklcSet>>
vatVars    == <<vatMgr, vatTxs>>
priceVars  == <<priceCache, priceCall>>
aucVars    == <<activeAuctions, aucScan>>
calcVars   == <<priceCalc, ratioCalc>>
barkVars   == <<barkCall>>
arbVars    == <<arb>>
healthVars == <<health, healthTick>>
coreVars == <<cfgVars, vaultVars, liqVars, bidVars, pegVars, keeperVars>>
extVars  == <<contractVars, calcVars, barkVars, arbVars, healthVars, flopVars, flapVars, vatVars, priceVars, aucVars>>
vars == <<coreVars, extVars>>

-----------------------------------------------------------------------------
(* Bounds of the model. *)

\* Largest amount read from chain by the executors (Hole, Dirt, balances,
\* lots, prices).
MaxVal == 2
\* Largest amount read from chain by the vault scan (ink, art, spot, rate).
MaxRead == 1
\* Longest historical Frob log replayed by loadHistoricalUrns.
MaxLogs == 2

None == "none"
Vals == 0..MaxVal
Reads == 0..MaxRead

Min(a, b) == IF a < b THEN a ELSE b
Range(s) == {s[i] : i \in 1..Len(s)}

-----------------------------------------------------------------------------
(* Configuration. *)

Modes == {"full", "kick", "bid", "peg"}

\* The collateral types, in the order of Object.entries(config.clippers).
CollateralTypes == <<"WBTC-A", "WETH-A">>
TypeSet == Range(CollateralTypes)

\* config.clippers, as the set of the types whose clipper address is set.
CfgInit ==
  /\ mode \in Modes
  /\ emergencyStop \in BOOLEAN
  /\ clippers \in SUBSET TypeSet

\* getCollateralTypes: the types with a clipper address, in order.
getCollateralTypes(cl) == SelectSeq(CollateralTypes, LAMBDA t : t \in cl)

\* collateralTypeToIlk: the type's name as a bytes32 hex string.
collateralTypeToIlk(type) ==
  CASE type = "WBTC-A" -> "0x574254432d41"
    [] type = "WETH-A" -> "0x574554482d41"

IlkTags == {collateralTypeToIlk(t) : t \in TypeSet}
UrnAddrs == {"u1", "u2"}

-----------------------------------------------------------------------------
(* Fixed-point arithmetic (utils/calculations). *)

\* An isVaultSafe that takes a vault at exactly 100% for unsafe.
isVaultSafeStrict(ink, art, spot, rate) == ink * spot > art * rate

\* isVaultSafe: ink * spot >= art * rate, without division.
isVaultSafe(ink, art, spot, rate) == ink * spot >= art * rate

-----------------------------------------------------------------------------
(* VaultMonitor. *)

\* this.urns: Map<ilk, Set<urn>>.  A JavaScript Set iterates in insertion
\* order, so each set is a sequence without repeats.
EmptyMap == [i \in {} |-> <<>>]

SetAdd(s, x) == IF x \in Range(s) THEN s ELSE Append(s, x)

\* A faulty addUrn, which forgets the ilk's earlier urns.
addUrnForgetful(m, ilk, urnAddress) ==
  LET m1 == IF ilk \in DOMAIN m THEN m ELSE m @@ (ilk :> <<>>)
  IN  [m1 EXCEPT ![ilk] = <<urnAddress>>]

addUrn(m, ilk, urnAddress) ==
  LET m1 == IF ilk \in DOMAIN m THEN m ELSE m @@ (ilk :> <<>>)
  IN  [m1 EXCEPT ![ilk] = SetAdd(@, urnAddress)]

\* this.urns.get(ilk) || new Set()
urnsOf(m, ilk) == IF ilk \in DOMAIN m THEN m[ilk] ELSE <<>>

KnownPairs == {p \in IlkTags \X UrnAddrs : p[2] \in Range(urnsOf(urns, p[1]))}

RECURSIVE addAll(_, _)
addAll(m, events) ==
  IF events = <<>> THEN m
  ELSE addAll(addUrn(m, Head(events)[1], Head(events)[2]), Tail(events))

FrobLogs == UNION {[1..n -> IlkTags \X UrnAddrs] : n \in 0..MaxLogs}

ScanIdle == [pc |-> "idle", ci |-> 0, ui |-> 0, ilkData |-> None]

VaultInit ==
  /\ urns = EmptyMap
  /\ vmSubscribed = FALSE
  /\ scan = ScanIdle
  /\ opportunities = <<>>
  /\ frobSeen = {}
  /\ lastRead = <<>>
  /\ lastFailed = <<>>
  /\ startLog = "none"

\* A start that gives up when the log query fails.
VaultStartThrows ==
  /\ ~vmSubscribed
  /\ \/ \E events \in FrobLogs :
          /\ urns' = addAll(urns, events)
          /\ frobSeen' = frobSeen \cup Range(events)
          /\ startLog' = "loaded"
          /\ vmSubscribed' = TRUE
     \/ /\ startLog' = "failed"
        /\ UNCHANGED <<urns, frobSeen, vmSubscribed>>
  /\ UNCHANGED <<scan, opportunities, lastRead, lastFailed>>
  /\ UNCHANGED <<cfgVars, liqVars, bidVars, pegVars, keeperVars, extVars>>

\* VaultMonitor.start: loadHistoricalUrns, then subscribeToFrobEvents.  The
\* log query either returns the events, each of which is added, or throws,
\* which is caught and logged.  startLog is the outcome of the log query of
\* the start that has just returned; it is "none" again once the monitor
\* has had an event or a scan.
VaultStart ==
  /\ ~vmSubscribed
  /\ \/ \E events \in FrobLogs :
          /\ urns' = addAll(urns, events)
          /\ frobSeen' = frobSeen \cup Range(events)
          /\ startLog' = "loaded"
     \/ /\ startLog' = "failed"
        /\ UNCHANGED <<urns, frobSeen>>
  /\ vmSubscribed' = TRUE
  /\ UNCHANGED <<scan, opportunities, lastRead, lastFailed>>
  /\ UNCHANGED <<cfgVars, liqVars, bidVars, pegVars, keeperVars, extVars>>

\* The onVatFrob callback of subscribeToFrobEvents.
OnVatFrob(ilk, urnAddress) ==
  /\ vmSubscribed
  /\ urns' = addUrn(urns, ilk, urnAddress)
  /\ frobSeen' = frobSeen \cup {<<ilk, urnAddress>>}
  /\ startLog' = "none"
  /\ UNCHANGED <<vmSubscribed, scan, opportunities, lastRead, lastFailed>>
  /\ UNCHANGED <<cfgVars, liqVars, bidVars, pegVars, keeperVars, extVars>>

\* VaultMonitor.stop only logs.
VaultStop ==
  /\ vmSubscribed
  /\ UNCHANGED vars

\* checkVaults, entered: opportunities = [].
CheckVaultsBegin ==
  /\ vmSubscribed
  /\ scan.pc = "idle"
  /\ scan' = [pc |-> "ilk", ci |-> 1, ui |-> 0, ilkData |-> None]
  /\ opportunities' = <<>>
  /\ lastRead' = <<>>
  /\ lastFailed' = <<>>
  /\ startLog' = "none"
  /\ UNCHANGED <<urns, vmSubscribed, frobSeen>>
  /\ UNCHANGED <<cfgVars, liqVars, bidVars, pegVars, keeperVars, extVars>>

\* The head of the loop over the collateral types: a type without known urns
\* is skipped; otherwise getIlk and getDogData are read once.  A failed read
\* is not caught in checkVaults: the call throws.
CheckVaultsIlk ==
  /\ scan.pc = "ilk"
  /\ LET types == getCollateralTypes(clippers) IN
     IF scan.ci > Len(types)
     THEN scan' = [scan EXCEPT !.pc = "done"]
     ELSE IF Len(urnsOf(urns, collateralTypeToIlk(types[scan.ci]))) = 0
     THEN scan' = [scan EXCEPT !.ci = @ + 1]
     ELSE \/ \E spot \in Reads, rate \in Reads :
               scan' = [scan EXCEPT !.pc = "urn", !.ui = 1,
                                    !.ilkData = [spot |-> spot, rate |-> rate]]
          \/ scan' = [scan EXCEPT !.pc = "threw"]
  /\ UNCHANGED <<urns, vmSubscribed, opportunities, frobSeen, lastRead, lastFailed,
               startLog>>
  /\ UNCHANGED <<cfgVars, liqVars, bidVars, pegVars, keeperVars, extVars>>

\* What one urn read adds to the opportunities: nothing for an empty or a
\* safe vault, the opportunity for an unsafe one.
urnOpportunity(ilk, urnAddress, ink, art, ilkData) ==
  IF art = 0 THEN <<>>
  ELSE IF isVaultSafe(ink, art, ilkData.spot, ilkData.rate) THEN <<>>
  ELSE << [ilk |-> ilk, urn |-> urnAddress, ink |-> ink, art |-> art,
           spot |-> ilkData.spot, rate |-> ilkData.rate,
           collateralValue |-> ink * ilkData.spot,
           debtValue |-> art * ilkData.rate] >>

\* A scan that is given up when the read of an urn fails.
CheckVaultsUrnThrows ==
  /\ scan.pc = "urn"
  /\ LET ilk == collateralTypeToIlk(getCollateralTypes(clippers)[scan.ci])
         set == urnsOf(urns, ilk)
     IN IF scan.ui > Len(set)
        THEN /\ scan' = [scan EXCEPT !.pc = "ilk", !.ci = @ + 1]
             /\ lastFailed' = <<>>
             /\ UNCHANGED <<opportunities, lastRead>>
        ELSE \/ \E ink \in Reads, art \in Reads :
                  /\ scan' = [scan EXCEPT !.ui = @ + 1]
                  /\ opportunities' = opportunities \o
                       urnOpportunity(ilk, set[scan.ui], ink, art, scan.ilkData)
                  /\ lastRead' = << [ilk |-> ilk, urn |-> set[scan.ui],
                                     ink |-> ink, art |-> art,
                                     spot |-> scan.ilkData.spot,
                                     rate |-> scan.ilkData.rate] >>
                  /\ UNCHANGED lastFailed
             \/ /\ scan' = [scan EXCEPT !.pc = "threw"]
                /\ lastFailed' = <<ilk, set[scan.ui]>>
                /\ UNCHANGED <<opportunities, lastRead>>
  /\ UNCHANGED <<urns, vmSubscribed, frobSeen, startLog>>
  /\ UNCHANGED <<cfgVars, liqVars, bidVars, pegVars, keeperVars, extVars>>

\* One pass of the loop over the urns of the current type: getUrn is read;
\* an error is caught and logged, and the loop goes on.  lastFailed is the
\* urn whose read failed last in the loop over the current type's urns.
CheckVaultsUrn ==
  /\ scan.pc = "urn"
  /\ LET ilk == collateralTypeToIlk(getCollateralTypes(clippers)[scan.ci])
         set == urnsOf(urns, ilk)
     IN IF scan.ui > Len(set)
        THEN /\ scan' = [scan EXCEPT !.pc = "ilk", !.ci = @ + 1]
             /\ lastFailed' = <<>>
             /\ UNCHANGED <<opportunities, lastRead>>
        ELSE /\ scan' = [scan EXCEPT !.ui = @ + 1]
             /\ \/ \E ink \in Reads, art \in Reads :
                     /\ opportunities' = opportunities \o
                          urnOpportunity(ilk, set[scan.ui], ink, art, scan.ilkData)
                     /\ lastRead' = << [ilk |-> ilk, urn |-> set[scan.ui],
                                        ink |-> ink, art |-> art,
                                        spot |-> scan.ilkData.spot,
                                        rate |-> scan.ilkData.rate] >>
                     /\ UNCHANGED lastFailed
                \/ /\ lastFailed' = <<ilk, set[scan.ui]>>
                   /\ UNCHANGED <<opportunities, lastRead>>
  /\ UNCHANGED <<urns, vmSubscribed, frobSeen, startLog>>
  /\ UNCHANGED <<cfgVars, liqVars, bidVars, pegVars, keeperVars, extVars>>

\* checkVaults returns its opportunities, or has thrown.
CheckVaultsEnd ==
  /\ scan.pc \in {"done", "threw"}
  /\ scan' = ScanIdle
  /\ UNCHANGED <<urns, vmSubscribed, opportunities, frobSeen, lastRead, lastFailed,
               startLog>>
  /\ UNCHANGED <<cfgVars, liqVars, bidVars, pegVars, keeperVars, extVars>>

\* What checkVaults hands to its caller.
checkVaultsResult == IF scan.pc = "done" THEN opportunities ELSE <<>>

-----------------------------------------------------------------------------
(* LiquidationExecutor. *)

\* Longest batch of opportunities handed to an executor in one tick.
MaxOpps == 2
\* The executors' success counters are followed up to this value.
MaxCount == 2

SeqsUpTo(S, n) == UNION {[1..k -> S] : k \in 0..n}

\* A LiquidationOpportunity, as far as the executor reads it.
LiqOpps == [ilk : IlkTags, urn : {"u1"}]

\* getDogData: Hole, Dirt and the ilk's hole and dirt, read together.
DogReads == [hole : Vals, dirt : Vals, ilkHole : Vals, ilkDirt : Vals]

LiqIdle == [pc |-> "idle", opps |-> <<>>, i |-> 0, results |-> <<>>]

LiqInit ==
  /\ liq = LiqIdle
  /\ dogData = None
  /\ barks = <<>>
  /\ liquidationsTriggered = 0

\* A faulty pre-flight, which leaves out the ilk's ceiling.
liquidationPreflightGlobalOnly(d) ==
  IF d.dirt >= d.hole THEN "Global debt ceiling reached" ELSE "bark"

\* The pre-flight of executeLiquidation, after the Dog data is read: the
\* error it returns, or "bark".
liquidationPreflight(d) ==
  IF d.dirt >= d.hole THEN "Global debt ceiling reached"
  ELSE IF d.ilkDirt >= d.ilkHole THEN "Ilk debt ceiling reached"
  ELSE "bark"

\* executeLiquidations, entered with its opportunities.
ExecuteLiquidations(opps) ==
  /\ liq.pc = "idle"
  /\ liquidationsTriggered < MaxCount
  /\ liq' = [pc |-> "next", opps |-> opps, i |-> 1, results |-> <<>>]
  /\ barks' = <<>>
  /\ dogData' = None
  /\ UNCHANGED liquidationsTriggered
  /\ UNCHANGED <<cfgVars, vaultVars, bidVars, pegVars, keeperVars, extVars>>

\* executeLiquidation up to its first send.  With the emergency stop set it
\* refuses at once.  Otherwise getDogData is read: a failed read throws to
\* executeLiquidations, which records the failure and moves on without the
\* delay; a reached ceiling refuses; otherwise dog.bark is sent.
ExecuteLiquidation ==
  /\ liq.pc = "next"
  /\ liq.i <= Len(liq.opps)
  /\ IF emergencyStop
     THEN /\ liq' = [liq EXCEPT !.pc = "delay", !.results = Append(@, FALSE)]
          /\ UNCHANGED <<dogData, barks>>
     ELSE \/ /\ liq' = [liq EXCEPT !.i = @ + 1, !.results = Append(@, FALSE)]
             /\ UNCHANGED <<dogData, barks>>
          \/ \E d \in DogReads :
               /\ dogData' = [data |-> d, readFor |-> liq.i]
               /\ IF liquidationPreflight(d) = "bark"
                  THEN /\ barks' = Append(barks,
                            [opp |-> liq.i, ilk |-> liq.opps[liq.i].ilk,
                             urn |-> liq.opps[liq.i].urn, dog |-> dogData'])
                       /\ liq' = [liq EXCEPT !.pc = "wait"]
                  ELSE /\ liq' = [liq EXCEPT !.pc = "delay",
                                             !.results = Append(@, FALSE)]
                       /\ UNCHANGED barks
  /\ UNCHANGED liquidationsTriggered
  /\ UNCHANGED <<cfgVars, vaultVars, bidVars, pegVars, keeperVars, extVars>>

\* An executor that sends the bark again when it has failed.
BarkReceiptRetry(success) ==
  /\ liq.pc = "wait"
  /\ liq' = IF success
            THEN [liq EXCEPT !.pc = "delay", !.results = Append(@, success)]
            ELSE [liq EXCEPT !.pc = "next"]
  /\ liquidationsTriggered' = liquidationsTriggered + (IF success THEN 1 ELSE 0)
  /\ barks' = <<>>
  /\ UNCHANGED dogData
  /\ UNCHANGED <<cfgVars, vaultVars, bidVars, pegVars, keeperVars, extVars>>

\* ContractService.bark, resolved: the receipt, or an error turned into
\* success = false.  The transaction is no longer pending.
BarkReceipt(success) ==
  /\ liq.pc = "wait"
  /\ liq' = [liq EXCEPT !.pc = "delay", !.results = Append(@, success)]
  /\ liquidationsTriggered' = liquidationsTriggered + (IF success THEN 1 ELSE 0)
  /\ barks' = <<>>
  /\ UNCHANGED dogData
  /\ UNCHANGED <<cfgVars, vaultVars, bidVars, pegVars, keeperVars, extVars>>

\* The 2 s delay after an opportunity.
LiquidationDelay ==
  /\ liq.pc = "delay"
  /\ liq' = [liq EXCEPT !.pc = "next", !.i = @ + 1]
  /\ UNCHANGED <<dogData, barks, liquidationsTriggered>>
  /\ UNCHANGED <<cfgVars, vaultVars, bidVars, pegVars, keeperVars, extVars>>

\* executeLiquidations returns its results.
ExecuteLiquidationsEnd ==
  /\ liq.pc = "next"
  /\ liq.i > Len(liq.opps)
  /\ liq' = LiqIdle
  /\ UNCHANGED <<dogData, barks, liquidationsTriggered>>
  /\ UNCHANGED <<cfgVars, vaultVars, bidVars, pegVars, keeperVars, extVars>>

-----------------------------------------------------------------------------
(* BiddingExecutor. *)

\* The fixed-point unit WAD (10^18 in the source), scaled down.
WAD == 2

\* bigint division truncates toward zero.
TDiv(a, b) == IF a >= 0 THEN a \div b ELSE -((-a) \div b)

\* calculateProfitPercentage, in hundredths of a percent (the source divides
\* this integer by 100 as a float).
calculateProfitPercentage(buyPrice, sellPrice) ==
  IF buyPrice = 0 THEN 0 ELSE TDiv((sellPrice - buyPrice) * 10000, buyPrice)

\* A BiddingOpportunity, as far as the executor reads it.  auction.ilk is the
\* key ContractService.take looks the clipper up by.
BidIlks == TypeSet

\* The lots and the market prices of the opportunities.
BidLots == {1, 2}
BidMarketPrices == {1, 2}
BidOpps == [ilk : BidIlks, id : {1}, lot : BidLots, currentPrice : Vals,
            marketPrice : BidMarketPrices]

profitPercentage(o) == calculateProfitPercentage(o.currentPrice, o.marketPrice)

\* The batches executeBids is called with: one opportunity per auction.
BidBatches ==
  {s \in SeqsUpTo(BidOpps, Min(MaxOpps, Cardinality(BidIlks))) :
     \A i, j \in 1..Len(s) : i # j => <<s[i].ilk, s[i].id>> # <<s[j].ilk, s[j].id>>}

\* Array.prototype.sort with (a, b) => b.profitPercentage - a.profitPercentage:
\* a stable sort, highest profit first.
RECURSIVE insertSorted(_, _)
insertSorted(sorted, o) ==
  IF sorted = <<>> THEN <<o>>
  ELSE IF profitPercentage(Head(sorted)) >= profitPercentage(o)
       THEN <<Head(sorted)>> \o insertSorted(Tail(sorted), o)
       ELSE <<o>> \o sorted

\* An executeBids that keeps the order of the monitor.
sortByProfitNot(s) == s

RECURSIVE sortByProfit(_)
sortByProfit(s) ==
  IF s = <<>> THEN <<>>
  ELSE insertSorted(sortByProfit(SubSeq(s, 1, Len(s) - 1)), s[Len(s)])

\* balance: the Vat balance the executeBid under way has read.
BidIdle == [pc |-> "idle", opps |-> <<>>, i |-> 0, results |-> <<>>,
            balance |-> <<>>]

BidInit ==
  /\ bid = BidIdle
  /\ takes = <<>>
  /\ bidsExecuted = 0
  /\ totalProfit = 0

\* ContractService.getClipper: the clippers map is keyed by collateral type.
getClipper(ilk) == IF ilk \in clippers THEN ilk ELSE None

kusdNeeded(lot, currentPrice) == (lot * currentPrice) \div WAD

\* The balance test of executeBid: a balance below kusdNeeded is refused.
insufficientBalance(kusdBalance, needed) == kusdBalance < needed

\* A faulty amountToTake, which always takes the whole lot.
amountToTakeWholeLot(lot, kusdBalance, currentPrice) == lot

\* amountToTake: the lot, limited by what the balance affords.
amountToTake(lot, kusdBalance, currentPrice) ==
  LET maxAffordable == (kusdBalance * WAD) \div currentPrice
  IN  IF maxAffordable < lot THEN maxAffordable ELSE lot

\* executeBids, entered: the opportunities are sorted first.
ExecuteBids(opps) ==
  /\ bid.pc = "idle"
  /\ bidsExecuted < MaxCount
  /\ bid' = [BidIdle EXCEPT !.pc = "next", !.opps = sortByProfit(opps), !.i = 1]
  /\ takes' = <<>>
  /\ UNCHANGED <<bidsExecuted, totalProfit>>
  /\ UNCHANGED <<cfgVars, vaultVars, liqVars, pegVars, keeperVars, extVars>>

\* An executeBid whose division by a zero price does not throw, as with
\* floating point numbers: the whole lot is affordable.
ExecuteBidAtAnyPrice ==
  /\ bid.pc = "next"
  /\ bid.i <= Len(bid.opps)
  /\ LET o == bid.opps[bid.i]
         refused == [bid EXCEPT !.pc = "delay", !.results = Append(@, FALSE)]
         thrown  == [bid EXCEPT !.i = @ + 1, !.results = Append(@, FALSE)]
     IN IF emergencyStop
        THEN bid' = refused /\ UNCHANGED takes
        ELSE \/ bid' = thrown /\ UNCHANGED takes
             \/ \E kusdBalance \in Vals :
                  IF insufficientBalance(kusdBalance, kusdNeeded(o.lot, o.currentPrice))
                  THEN /\ bid' = [refused EXCEPT !.balance = <<kusdBalance>>]
                       /\ UNCHANGED takes
                  ELSE IF getClipper(o.ilk) = None
                  THEN /\ bid' = [refused EXCEPT !.balance = <<kusdBalance>>]
                       /\ UNCHANGED takes
                  ELSE /\ takes' = Append(takes,
                            [opp |-> bid.i, ilk |-> o.ilk, id |-> o.id,
                             amount |-> IF o.currentPrice = 0 THEN o.lot
                                        ELSE amountToTake(o.lot, kusdBalance, o.currentPrice),
                             max |-> o.currentPrice, kusdBalance |-> kusdBalance])
                       /\ bid' = [bid EXCEPT !.pc = "wait", !.balance = <<kusdBalance>>]
  /\ UNCHANGED <<bidsExecuted, totalProfit>>
  /\ UNCHANGED <<cfgVars, vaultVars, liqVars, pegVars, keeperVars, extVars>>

\* BiddingExecutor.executeBid up to its send.  With the emergency stop set
\* it refuses.  A failed balance read, or the division by a zero price,
\* throws to executeBids, which records the failure and moves on without the
\* delay.  A balance below kusdNeeded refuses.  ContractService.take without
\* a clipper for the ilk fails without sending; otherwise clipper.take is
\* sent with max = currentPrice.
ExecuteBid ==
  /\ bid.pc = "next"
  /\ bid.i <= Len(bid.opps)
  /\ LET o == bid.opps[bid.i]
         refused == [bid EXCEPT !.pc = "delay", !.results = Append(@, FALSE)]
         thrown  == [bid EXCEPT !.i = @ + 1, !.results = Append(@, FALSE)]
     IN IF emergencyStop
        THEN bid' = refused /\ UNCHANGED takes
        ELSE \/ bid' = thrown /\ UNCHANGED takes
             \/ \E kusdBalance \in Vals :
                  IF insufficientBalance(kusdBalance, kusdNeeded(o.lot, o.currentPrice))
                  THEN /\ bid' = [refused EXCEPT !.balance = <<kusdBalance>>]
                       /\ UNCHANGED takes
                  ELSE IF o.currentPrice = 0
                  THEN bid' = thrown /\ UNCHANGED takes
                  ELSE IF getClipper(o.ilk) = None
                  THEN /\ bid' = [refused EXCEPT !.balance = <<kusdBalance>>]
                       /\ UNCHANGED takes
                  ELSE /\ takes' = Append(takes,
                            [opp |-> bid.i, ilk |-> o.ilk, id |-> o.id,
                             amount |-> amountToTake(o.lot, kusdBalance, o.currentPrice),
                             max |-> o.currentPrice, kusdBalance |-> kusdBalance])
                       /\ bid' = [bid EXCEPT !.pc = "wait", !.balance = <<kusdBalance>>]
  /\ UNCHANGED <<bidsExecuted, totalProfit>>
  /\ UNCHANGED <<cfgVars, vaultVars, liqVars, pegVars, keeperVars, extVars>>

\* The profit executeBid records after a take: value - spent, each divided
\* by WAD on its own.
takeProfit(amount, currentPrice, marketPrice) ==
  LET spent == (amount * currentPrice) \div WAD
      value == (amount * marketPrice) \div WAD
  IN  value - spent

\* ContractService.take, resolved: a success is counted and its profit added
\* to totalProfit.
TakeReceipt(success) ==
  /\ bid.pc = "wait"
  /\ bid' = [bid EXCEPT !.pc = "delay", !.results = Append(@, success),
                        !.balance = <<>>]
  /\ bidsExecuted' = bidsExecuted + (IF success THEN 1 ELSE 0)
  /\ totalProfit' =
       IF success
       THEN totalProfit + takeProfit(takes[1].amount, takes[1].max,
                                     bid.opps[bid.i].marketPrice)
       ELSE totalProfit
  /\ takes' = <<>>
  /\ UNCHANGED <<cfgVars, vaultVars, liqVars, pegVars, keeperVars, extVars>>

\* The 2 s delay after a bid.
BidDelay ==
  /\ bid.pc = "delay"
  /\ bid' = [bid EXCEPT !.pc = "next", !.i = @ + 1, !.balance = <<>>]
  /\ UNCHANGED <<takes, bidsExecuted, totalProfit>>
  /\ UNCHANGED <<cfgVars, vaultVars, liqVars, pegVars, keeperVars, extVars>>

\* executeBids returns its results.
ExecuteBidsEnd ==
  /\ bid.pc = "next"
  /\ bid.i > Len(bid.opps)
  /\ bid' = BidIdle
  /\ UNCHANGED <<takes, bidsExecuted, totalProfit>>
  /\ UNCHANGED <<cfgVars, vaultVars, liqVars, pegVars, keeperVars, extVars>>

-----------------------------------------------------------------------------
(* PegKeeperService.  Gem amounts are in hundredths of a USDC, and KUSD    *)
(* amounts in the unit worth one gem unit at the peg, so that the source's *)
(* normalisation factor 10^12 is 1.  Time is in units of 150 s.            *)

\* Date.now() is followed up to this value.
MaxTime == 3

MIN_POOL_LIQUIDITY_USD == 500
MAX_TRADE_PERCENT_OF_POOL == 10
\* config.maxArbAmount (10 USDC).
maxArbAmount == 1000
\* config.minArbProfitPercentage, in hundredths of a percent.
minArbProfitPercentage == 50
\* config.pegUpperLimit and config.pegLowerLimit, in thousandths.
pegUpperLimit == 1005
pegLowerLimit == 995
\* config.arbCooldownMs (300 s).
arbCooldownMs == 2

CallIds == {"c1", "c2"}

\* pair.getReserves, as <<usdcReserve, kusdReserve>>.
PoolReads == {<<400, 400>>, <<2000, 0>>, <<2000, 2000>>, <<2010, 2000>>,
              <<5000, 4900>>, <<4900, 5000>>}
\* gem.balanceOf(wallet) and gem.balanceOf(pocket).
GemBalanceReads == {0, 3000}
PocketReads == {0, 400}
\* router.getAmountsOut, as the difference between its answer and amountIn.
QuoteReads == {-1, 0, 1, 5}
\* psm.tout
ToutReads == {0, 1}

CallIdle == [pc |-> "idle", start |-> 0, branch |-> None, amountIn |-> 0,
             expectedProfit |-> 0, simulated |-> FALSE, sent |-> 0,
             executed |-> FALSE, emptyPocket |-> FALSE]

PegInit ==
  /\ now = 1
  /\ lastArbTime = 0
  /\ calls = [c \in CallIds |-> CallIdle]

\* The cooldown test of checkAndArbitrage.
cooldownActive(t, last) == last > 0 /\ t - last < arbCooldownMs

\* price > pegUpperLimit and price < pegLowerLimit, price = usdc / kusd.
priceAbove(usdc, kusd) == usdc * 1000 > pegUpperLimit * kusd
priceBelow(usdc, kusd) == usdc * 1000 < pegLowerLimit * kusd
\* deviationPct < minArbProfitPercentage
deviationTooSmall(usdc, kusd) ==
  (IF usdc >= kusd THEN usdc - kusd ELSE kusd - usdc) * 10000
     < minArbProfitPercentage * kusd

\* A trade size that ignores the pool limit.
highAmountInNoPoolCap(gemBalance, maxPoolTradeSize) ==
  Min(gemBalance, maxArbAmount)

\* The trade size of arbHighPrice: the wallet balance, capped by maxArbAmount
\* and by the pool limit.
highAmountIn(gemBalance, maxPoolTradeSize) ==
  Min(Min(gemBalance, maxArbAmount), maxPoolTradeSize)

\* The trade size of arbLowPrice: capped by the pocket balance as well.
lowAmountIn(gemBalance, maxPoolTradeSize, pocketBalance) ==
  Min(highAmountIn(gemBalance, maxPoolTradeSize), pocketBalance)

\* (Number(expectedProfit) / Number(amountIn)) * 100 < minArbProfitPercentage,
\* as floating point decides it: dividing by zero gives NaN or an infinity.
profitPctBelowMin(expectedProfit, amountIn) ==
  IF amountIn = 0 THEN expectedProfit < 0
  ELSE expectedProfit * 10000 < minArbProfitPercentage * amountIn

\* A faulty gate, which only refuses a loss.
arbSkippedOnLossOnly(expectedProfit, amountIn) == expectedProfit <= 0

\* The profitability gate of both branches: TRUE when the arb is skipped.
arbSkipped(expectedProfit, amountIn) ==
  profitPctBelowMin(expectedProfit, amountIn) \/ expectedProfit <= 0

\* expectedGemOut of arbLowPrice, with conversion = 1.
expectedGemOut(expectedKusdOut, tout) ==
  (expectedKusdOut * WAD) \div (WAD + tout)

\* A read of the pocket that takes it for full whatever it holds.
getPocketBalanceFull(balanceOf) == maxArbAmount

\* getPocketBalance(): the gem balance of the PSM pocket.
getPocketBalance(balanceOf) == balanceOf

skipPlan == [act |-> "skip", branch |-> None, amountIn |-> 0,
             expectedProfit |-> 0, simulated |-> FALSE]

\* checkAndArbitrage from the pool reads to the decision to trade: "skip", or
\* the branch to execute, with the simulated trade.
pegPlan(pool, gemBalance, pocketBalance, quote, tout) ==
  LET usdc == pool[1]
      kusd == pool[2]
      maxSafeTradeSize == (usdc * MAX_TRADE_PERCENT_OF_POOL) \div 100
      sim(branch, amountIn, profit) ==
        [act |-> IF arbSkipped(profit, amountIn) THEN "skip" ELSE branch,
         branch |-> branch, amountIn |-> amountIn,
         expectedProfit |-> profit, simulated |-> TRUE]
  IN  IF usdc < MIN_POOL_LIQUIDITY_USD THEN skipPlan
      ELSE IF usdc = 0 \/ kusd = 0 THEN skipPlan
      ELSE IF deviationTooSmall(usdc, kusd) THEN skipPlan
      ELSE IF priceAbove(usdc, kusd)
      THEN IF gemBalance = 0 THEN skipPlan
           ELSE LET amountIn == highAmountIn(gemBalance, maxSafeTradeSize)
                IN  sim("high", amountIn, (amountIn + quote) - amountIn)
      ELSE IF priceBelow(usdc, kusd)
      THEN LET pocket == getPocketBalance(pocketBalance)
           IN  IF pocket = 0 \/ gemBalance = 0 THEN skipPlan
               ELSE LET amountIn == lowAmountIn(gemBalance, maxSafeTradeSize,
                                                pocket)
                    IN  IF amountIn = 0 THEN skipPlan
                        ELSE sim("low", amountIn,
                               expectedGemOut(amountIn + quote, tout) - amountIn)
      ELSE skipPlan

\* The four transactions of a branch, in the order they are sent.
legTx(branch, k) ==
  IF branch = "high" THEN <<"approve", "sellGem", "approve", "swap">>[k]
  ELSE <<"approve", "swap", "approve", "buyGem">>[k]

\* checkAndArbitrage, entered: the cooldown test.
checkAndArbitrage(c) ==
  /\ calls[c].pc \in {"idle", "done"}
  /\ calls' = [calls EXCEPT ![c] =
       [CallIdle EXCEPT !.start = now,
          !.pc = IF cooldownActive(now, lastArbTime) THEN "done" ELSE "check"]]
  /\ UNCHANGED <<now, lastArbTime>>

\* A call of checkAndArbitrage by the service's user.
PegCall(c) ==
  /\ checkAndArbitrage(c)
  /\ UNCHANGED <<cfgVars, vaultVars, liqVars, bidVars, keeperVars, extVars>>

\* The reads and the simulation.  The reserves are read once here (the
\* source reads them again in getKusdPrice, within the same await chain).
\* A failed read is caught by checkAndArbitrage, which returns
\* executed = false.  When the plan is to
\* trade, the first approval is sent.
PegCheck(c) ==
  /\ calls[c].pc = "check"
  /\ \/ calls' = [calls EXCEPT ![c].pc = "done"]
     \/ \E pool \in PoolReads, gemBalance \in GemBalanceReads,
           pocketBalance \in PocketReads, quote \in QuoteReads,
           tout \in ToutReads :
          LET plan == pegPlan(pool, gemBalance, pocketBalance, quote, tout)
          IN  calls' = [calls EXCEPT ![c] =
                [@ EXCEPT !.branch = plan.branch, !.amountIn = plan.amountIn,
                          !.expectedProfit = plan.expectedProfit,
                          !.simulated = plan.simulated,
                          !.emptyPocket = priceBelow(pool[1], pool[2])
                                            /\ pocketBalance = 0,
                          !.pc = IF plan.act = "skip" THEN "done" ELSE "tx",
                          !.sent = IF plan.act = "skip" THEN 0 ELSE 1]]
  /\ UNCHANGED <<now, lastArbTime>>
  /\ UNCHANGED <<cfgVars, vaultVars, liqVars, bidVars, keeperVars, extVars>>

\* The awaited transaction confirms.  After the first three the next one is
\* sent; after the fourth the cooldown timestamp is set and the call
\* returns executed = true.
PegTxConfirmed(c) ==
  /\ calls[c].pc = "tx"
  /\ IF calls[c].sent < 4
     THEN /\ calls' = [calls EXCEPT ![c].sent = @ + 1]
          /\ UNCHANGED lastArbTime
     ELSE /\ calls' = [calls EXCEPT ![c].pc = "done", ![c].executed = TRUE]
          /\ lastArbTime' = now
  /\ UNCHANGED now
  /\ UNCHANGED <<cfgVars, vaultVars, liqVars, bidVars, keeperVars, extVars>>

\* The awaited transaction reverts, or a read after it fails: the error is
\* caught by checkAndArbitrage, which returns executed = false.
PegTxFailed(c) ==
  /\ calls[c].pc = "tx"
  /\ calls' = [calls EXCEPT ![c].pc = "done"]
  /\ UNCHANGED <<now, lastArbTime>>
  /\ UNCHANGED <<cfgVars, vaultVars, liqVars, bidVars, keeperVars, extVars>>

\* Time passes.
PegClock ==
  /\ now < MaxTime
  /\ now' = now + 1
  /\ UNCHANGED <<lastArbTime, calls>>
  /\ UNCHANGED <<cfgVars, vaultVars, liqVars, bidVars, keeperVars, extVars>>

-----------------------------------------------------------------------------
(* The legs of one peg arbitrage, arbHighPrice and arbLowPrice, with their *)
(* amounts and the keeper's wallet.  arb.gem and arb.kusd are the wallet's *)
(* holdings on chain; every balanceOf read returns them.                   *)

\* pair.getReserves()[gem] of a pool that passed the liquidity test.
ArbReserves == {500, 2000, 50000}
\* The wallet's holdings when the call is made.
ArbGemHeld == {0, 100, 3000}
ArbKusdHeld == {0, 7}
\* gem.balanceOf(pocket), not zero: checkAndArbitrage has returned otherwise.
ArbPocketReads == {30, 4000}
\* What a confirmed trade gives less than its quote, within the slippage
\* tolerance; what the PSM keeps of a sellGem (tin).
ArbSlips == {0, 1}

ArbIdle == [pc |-> "idle", branch |-> None, usdcReserve |-> 0,
            gemBalance |-> 0, pocketBalance |-> <<>>, tout |-> 0,
            amountIn |-> 0, expectedOut |-> 0,
            kusdBalanceBefore |-> 0, kusdReceived |-> 0,
            txs |-> <<>>, confirmed |-> 0, result |-> <<>>,
            gem |-> 0, kusd |-> 0, kusdHeld |-> 0]

ArbInit == arb = ArbIdle

\* maxSafeTradeSize of checkAndArbitrage.
maxSafeTradeSize(usdcReserve) == (usdcReserve * MAX_TRADE_PERCENT_OF_POOL) \div 100

\* { executed: false, profit: 0n }
notExecuted == [executed |-> FALSE, profit |-> 0]

\* gemAmtWithFee of arbLowPrice, with conversion = 1.
gemAmtWithFee(kusdReceived, tout) == (kusdReceived * WAD) \div (WAD + tout)

\* What buyGem takes from the wallet for gemAmt: the amount and the fee tout.
buyGemCost(gemAmt, tout) == gemAmt + (gemAmt * tout) \div WAD

\* A second leg that uses the wallet's whole stablecoin balance.
secondLegAmountWholeBalance(kusdBalanceAfter, kusdBalanceBefore) == kusdBalanceAfter

\* kusdReceived: the balance after the first leg minus the balance before.
secondLegAmount(kusdBalanceAfter, kusdBalanceBefore) ==
  kusdBalanceAfter - kusdBalanceBefore

\* The transaction sent as step k of a branch.
arbTx(a, k) ==
  IF a.branch = "high"
  THEN CASE k = 1 -> [name |-> "approve", token |-> "gem", to |-> "psm", amount |-> a.amountIn]
         [] k = 2 -> [name |-> "sellGem", token |-> "gem", to |-> "psm", amount |-> a.amountIn]
         [] k = 3 -> [name |-> "approve", token |-> "kusd", to |-> "router", amount |-> a.kusdReceived]
         [] k = 4 -> [name |-> "swap", token |-> "kusd", to |-> "router", amount |-> a.kusdReceived]
  ELSE CASE k = 1 -> [name |-> "approve", token |-> "gem", to |-> "router", amount |-> a.amountIn]
         [] k = 2 -> [name |-> "swap", token |-> "gem", to |-> "router", amount |-> a.amountIn]
         [] k = 3 -> [name |-> "approve", token |-> "kusd", to |-> "psm", amount |-> a.kusdReceived]
         [] k = 4 -> [name |-> "buyGem", token |-> "gem", to |-> "psm",
                      amount |-> gemAmtWithFee(a.kusdReceived, a.tout)]

\* A branch from its entry to the end of the simulation: the wallet's gem
\* balance is read, the size capped, the trade simulated; the call returns
\* without trading or sends the first approval.
arbEnter(branch, usdcReserve, pocketBalance, amountIn, expectedOut, expectedProfit, tout) ==
  LET a == [arb EXCEPT !.branch = branch, !.usdcReserve = usdcReserve,
                       !.gemBalance = arb.gem, !.pocketBalance = pocketBalance,
                       !.tout = tout, !.amountIn = amountIn,
                       !.expectedOut = expectedOut, !.kusdHeld = arb.kusd]
  IN  IF arb.gem = 0 \/ amountIn = 0 \/ arbSkipped(expectedProfit, amountIn)
      THEN [a EXCEPT !.pc = "done", !.result = <<notExecuted>>]
      ELSE [a EXCEPT !.pc = "tx", !.txs = <<arbTx(a, 1)>>]

\* The keeper's wallet when checkAndArbitrage is called.
ArbWallet(gem, kusd) ==
  /\ arb.pc = "idle"
  /\ arb.gem = 0 /\ arb.kusd = 0
  /\ arb' = [arb EXCEPT !.gem = gem, !.kusd = kusd, !.pc = "called"]
  /\ UNCHANGED <<coreVars, contractVars, calcVars, barkVars, healthVars, flopVars, flapVars, vatVars, priceVars, aucVars>>

\* checkAndArbitrage calls arbHighPrice with maxSafeTradeSize.
arbHighPrice(usdcReserve, quote) ==
  /\ arb.pc = "called"
  /\ LET amountIn == highAmountIn(arb.gem, maxSafeTradeSize(usdcReserve))
         expectedUsdcOut == amountIn + quote
     IN  arb' = arbEnter("high", usdcReserve, <<>>, amountIn, expectedUsdcOut,
                         expectedUsdcOut - amountIn, 0)
  /\ UNCHANGED <<coreVars, contractVars, calcVars, barkVars, healthVars, flopVars, flapVars, vatVars, priceVars, aucVars>>

\* checkAndArbitrage calls arbLowPrice with maxSafeTradeSize and the pocket
\* balance it has read.
arbLowPrice(usdcReserve, pocketBalance, quote, tout) ==
  /\ arb.pc = "called"
  /\ LET amountIn == lowAmountIn(arb.gem, maxSafeTradeSize(usdcReserve), pocketBalance)
         expectedKusdOut == amountIn + quote
     IN  arb' = arbEnter("low", usdcReserve, <<pocketBalance>>, amountIn, expectedKusdOut,
                         expectedGemOut(expectedKusdOut, tout) - amountIn, tout)
  /\ UNCHANGED <<coreVars, contractVars, calcVars, barkVars, healthVars, flopVars, flapVars, vatVars, priceVars, aucVars>>

\* What the confirmed transaction k does to the wallet.
arbEffect(a, k, slip) ==
  IF k \in {1, 3} THEN a
  ELSE IF a.branch = "high" /\ k = 2
  THEN [a EXCEPT !.gem = @ - a.amountIn, !.kusd = @ + (a.amountIn - slip)]
  ELSE IF a.branch = "high"
  THEN [a EXCEPT !.kusd = @ - a.kusdReceived, !.gem = @ + (a.expectedOut - slip)]
  ELSE IF k = 2
  THEN [a EXCEPT !.gem = @ - a.amountIn, !.kusd = @ + (a.expectedOut - slip)]
  ELSE LET gemAmt == gemAmtWithFee(a.kusdReceived, a.tout)
       IN  [a EXCEPT !.kusd = @ - buyGemCost(gemAmt, a.tout), !.gem = @ + gemAmt]

\* The awaited transaction confirms, and the branch goes on to its next
\* await of a transaction: the stablecoin balance is read before the first
\* trade and after it, and the gem balance after the second trade, when
\* the cooldown timestamp is set.
ArbTxConfirmed(slip) ==
  /\ arb.pc = "tx"
  /\ LET k == Len(arb.txs)
         a == [arbEffect(arb, k, slip) EXCEPT !.confirmed = k]
     IN  arb' =
           IF k = 1
           THEN LET b == [a EXCEPT !.kusdBalanceBefore = a.kusd]
                IN  [b EXCEPT !.txs = Append(@, arbTx(b, 2))]
           ELSE IF k = 2
           THEN LET b == [a EXCEPT !.kusdReceived =
                            secondLegAmount(a.kusd, a.kusdBalanceBefore)]
                IN  [b EXCEPT !.txs = Append(@, arbTx(b, 3))]
           ELSE IF k = 3
           THEN [a EXCEPT !.txs = Append(@, arbTx(a, 4))]
           ELSE [a EXCEPT !.pc = "done",
                          !.result = <<[executed |-> TRUE,
                                        profit |-> a.gem - a.gemBalance]>>]
  /\ lastArbTime' = IF Len(arb.txs) = 4 THEN now ELSE lastArbTime
  /\ UNCHANGED <<now, calls>>
  /\ UNCHANGED <<cfgVars, vaultVars, liqVars, bidVars, keeperVars>>
  /\ UNCHANGED <<contractVars, calcVars, barkVars, healthVars, flopVars, flapVars, vatVars, priceVars, aucVars>>

\* The awaited transaction reverts, or a read fails: the error is caught by
\* checkAndArbitrage, which returns executed = false and profit 0.
ArbFailed ==
  /\ arb.pc \in {"called", "tx"}
  /\ arb' = [arb EXCEPT !.pc = "done", !.result = <<notExecuted>>]
  /\ UNCHANGED <<coreVars, contractVars, calcVars, barkVars, healthVars, flopVars, flapVars, vatVars, priceVars, aucVars>>

-----------------------------------------------------------------------------
(* KUSDKeeper: start(), the interval timer and performCheck.  A tick is    *)
(* one execution of performCheck; the timer callback does not wait for the *)
(* previous execution, so that two slots are followed.  The tick of slot c *)
(* makes the checkAndArbitrage call c.                                     *)

FirstTick == "c1"

\* rest and profitable belong to the Flap and Flop loops: the flags of the
\* opportunities still to be looked at, and the flag of the opportunity the
\* executor was called with.  At pc = "flop", n counts the Flap opportunities
\* the loop has passed over.
TickIdle == [pc |-> "idle", n |-> 0, tx |-> None, did |-> {},
             rest |-> <<>>, profitable |-> FALSE]

KeeperInit ==
  /\ keeperPc = "new"
  /\ timerOn = FALSE
  /\ ticks = [c \in CallIds |-> TickIdle]
  /\ errors = 0
  /\ stopCalled = FALSE

\* A faulty mode test, which scans the vaults in mode bid as well.
RunsVaultAlsoInBid(m) == m = "full" \/ m = "kick" \/ m = "bid"

\* The mode tests of performCheck.
RunsVault(m) == m = "full" \/ m = "kick"
RunsAuction(m) == m = "full" \/ m = "bid"
RunsPeg(m) == m = "full" \/ m = "peg"

\* Where performCheck goes first, after the vault block, and after the Flop
\* block.
afterBegin(m) ==
  IF RunsVault(m) THEN "vault" ELSE IF RunsAuction(m) THEN "auction" ELSE "flap"
afterVault(m) == IF RunsAuction(m) THEN "auction" ELSE "flap"
afterFlop(m) == IF RunsPeg(m) THEN "peg" ELSE "end"

performCheckBegin(c) == [TickIdle EXCEPT !.pc = afterBegin(mode)]

\* One opportunity of an executor's loop is over.
nextOpp(tick, after) ==
  [tick EXCEPT !.n = @ - 1, !.tx = None,
               !.pc = IF tick.n = 1 THEN after ELSE @]

\* A FlapMonitor that takes every auction for profitable.
flapProfitableSet == TRUE

\* The profitable flag of the opportunities of FlapMonitor and FlopMonitor.
flapProfitable == FALSE
flopProfitable == FALSE

\* The test of the Flap and Flop loops of performCheck on an opportunity.
dispatchedAlways(profitable) == TRUE

dispatched(profitable) == profitable

\* The first opportunity of flags that the loop hands to its executor, or 0.
firstDispatched(flags) ==
  IF \E i \in 1..Len(flags) : dispatched(flags[i])
  THEN CHOOSE i \in 1..Len(flags) :
         /\ dispatched(flags[i])
         /\ \A j \in 1..(i - 1) : ~dispatched(flags[j])
  ELSE 0

\* The loop over flags runs, without waiting, up to its first call of the
\* executor (whose first transaction is tx), or to its end.
bidLoop(tick, flags, tx, after, passed) ==
  LET k == firstDispatched(flags)
  IN  IF k = 0
      THEN [tick EXCEPT !.pc = after, !.tx = None, !.rest = <<>>,
                        !.profitable = FALSE, !.n = passed]
      ELSE [tick EXCEPT !.tx = tx, !.rest = SubSeq(flags, k + 1, Len(flags)),
                        !.profitable = flags[k], !.n = 0]

\* The wallet has a transaction in flight for tick c.
InFlight(c) == ticks[c].tx \notin {None, "failed"} \/ calls[c].pc = "tx"

\* start(): the monitors are started, the interval timer is set and the
\* initial performCheck begins; or the peg service fails to initialize and
\* start() throws.
KeeperStart ==
  /\ keeperPc = "new"
  /\ \/ /\ keeperPc' = "initial"
        /\ timerOn' = TRUE
        /\ ticks' = [ticks EXCEPT ![FirstTick] = performCheckBegin(FirstTick)]
     \/ /\ RunsPeg(mode)
        /\ keeperPc' = "failed"
        /\ UNCHANGED <<timerOn, ticks>>
  /\ UNCHANGED <<errors, stopCalled>>
  /\ UNCHANGED <<cfgVars, vaultVars, liqVars, bidVars, pegVars, extVars>>

\* The interval timer fires: its callback calls performCheck.
TimerFire(c) ==
  /\ timerOn
  /\ ticks[c].pc = "idle"
  /\ ticks' = [ticks EXCEPT ![c] = performCheckBegin(c)]
  /\ UNCHANGED <<keeperPc, timerOn, errors, stopCalled>>
  /\ UNCHANGED <<cfgVars, vaultVars, liqVars, bidVars, pegVars, extVars>>

\* stop(), called by a user of the class: without isRunning it only warns;
\* otherwise the interval timer is cleared.  stopCalled records the call.
KeeperStop ==
  /\ keeperPc \in {"initial", "running"}
  /\ stopCalled' = TRUE
  /\ IF keeperPc = "running"
     THEN keeperPc' = "stopped" /\ timerOn' = FALSE
     ELSE UNCHANGED <<keeperPc, timerOn>>
  /\ UNCHANGED <<ticks, errors>>
  /\ UNCHANGED <<cfgVars, vaultVars, liqVars, bidVars, pegVars, extVars>>

\* SIGINT or SIGTERM: the handler calls stop() and then process.exit(0), so
\* that every execution of performCheck under way ends there.
KeeperShutdown ==
  /\ keeperPc \in {"initial", "running"}
  /\ keeperPc' = "exited"
  /\ stopCalled' = TRUE
  /\ timerOn' = FALSE
  /\ ticks' = [c \in CallIds |-> TickIdle]
  /\ calls' = [c \in CallIds |-> CallIdle]
  /\ UNCHANGED <<errors, now, lastArbTime>>
  /\ UNCHANGED <<cfgVars, vaultVars, liqVars, bidVars, extVars>>

\* vaultMonitor.checkVaults(): it throws (the error is caught at the end of
\* performCheck), or returns its opportunities.
PerformCheckVaults(c) ==
  /\ ticks[c].pc = "vault"
  /\ \/ /\ errors < MaxCount
        /\ errors' = errors + 1
        /\ ticks' = [ticks EXCEPT ![c].pc = "end",
                                    ![c].did = @ \cup {"vault", "error"}]
     \/ /\ \E n \in 0..MaxOpps :
             ticks' = [ticks EXCEPT ![c].did = @ \cup {"vault"}, ![c].n = n,
                         ![c].pc = IF n = 0 THEN afterVault(mode) ELSE "liq"]
        /\ UNCHANGED errors
  /\ UNCHANGED <<keeperPc, timerOn, stopCalled>>
  /\ UNCHANGED <<cfgVars, vaultVars, liqVars, bidVars, pegVars, extVars>>

\* executeLiquidation for the next opportunity: refused, failed on the read,
\* or a bark is sent.
PerformCheckLiquidation(c) ==
  /\ ticks[c].pc = "liq"
  /\ ticks[c].tx = None
  /\ IF emergencyStop
     THEN ticks' = [ticks EXCEPT ![c] = nextOpp(@, afterVault(mode))]
     ELSE \/ ticks' = [ticks EXCEPT ![c] = nextOpp(@, afterVault(mode))]
          \/ \E d \in DogReads :
               IF liquidationPreflight(d) = "bark"
               THEN ticks' = [ticks EXCEPT ![c].tx = "bark",
                                           ![c].did = @ \cup {"bark"}]
               ELSE ticks' = [ticks EXCEPT ![c] = nextOpp(@, afterVault(mode))]
  /\ UNCHANGED <<keeperPc, timerOn, errors, stopCalled>>
  /\ UNCHANGED <<cfgVars, vaultVars, liqVars, bidVars, pegVars, extVars>>

\* auctionMonitor.checkAuctions() returns its opportunities.
PerformCheckAuctions(c) ==
  /\ ticks[c].pc = "auction"
  /\ \E n \in 0..MaxOpps :
       ticks' = [ticks EXCEPT ![c].did = @ \cup {"auction"}, ![c].n = n,
                              ![c].pc = IF n = 0 THEN "flap" ELSE "bid"]
  /\ UNCHANGED <<keeperPc, timerOn, errors, stopCalled>>
  /\ UNCHANGED <<cfgVars, vaultVars, liqVars, bidVars, pegVars, extVars>>

\* executeBid for the next opportunity: refused, failed, or a take is sent.
PerformCheckBid(c) ==
  /\ ticks[c].pc = "bid"
  /\ ticks[c].tx = None
  /\ IF emergencyStop
     THEN ticks' = [ticks EXCEPT ![c] = nextOpp(@, "flap")]
     ELSE \/ ticks' = [ticks EXCEPT ![c] = nextOpp(@, "flap")]
          \/ ticks' = [ticks EXCEPT ![c].tx = "take",
                                    ![c].did = @ \cup {"take"}]
  /\ UNCHANGED <<keeperPc, timerOn, errors, stopCalled>>
  /\ UNCHANGED <<cfgVars, vaultVars, liqVars, bidVars, pegVars, extVars>>

\* Where the executor's loop of the tick goes once the transaction of its
\* opportunity has settled.
afterSettled(tick) ==
  IF tick.pc = "liq" THEN nextOpp(tick, afterVault(mode))
  ELSE IF tick.pc = "bid" THEN nextOpp(tick, "flap")
  ELSE IF tick.pc = "flap" THEN bidLoop(tick, tick.rest, "approve", "flop", 0)
  ELSE bidLoop(tick, tick.rest, "dent", afterFlop(mode), 0)

\* The receipt of the transaction arrives, or the send fails: the executor
\* catches the error, logs it and returns a result without success (tx is
\* "failed" until the executor's loop goes on).
PerformCheckReceipt(c) ==
  /\ ticks[c].tx \notin {None, "failed"}
  /\ \E confirmed \in BOOLEAN :
       ticks' = [ticks EXCEPT ![c] =
         IF ~confirmed THEN [@ EXCEPT !.tx = "failed"]
         ELSE IF ticks[c].pc = "flap" /\ ticks[c].tx = "approve"
           THEN [@ EXCEPT !.tx = "tend"]
         ELSE afterSettled(@)]
  /\ UNCHANGED <<keeperPc, timerOn, errors, stopCalled>>
  /\ UNCHANGED <<cfgVars, vaultVars, liqVars, bidVars, pegVars, extVars>>

\* The executor has returned the result of a failed send, and its loop goes
\* on with the next opportunity; performCheck sees no error.
PerformCheckFailed(c) ==
  /\ ticks[c].tx = "failed"
  /\ ticks' = [ticks EXCEPT ![c] = afterSettled(@)]
  /\ UNCHANGED <<keeperPc, timerOn, errors, stopCalled>>
  /\ UNCHANGED <<cfgVars, vaultVars, liqVars, bidVars, pegVars, extVars>>

\* flapMonitor.checkOpportunities() returns its opportunities, and the loop
\* over them calls flapExecutor.executeBid for those it dispatches.
PerformCheckFlap(c) ==
  /\ ticks[c].pc = "flap"
  /\ ticks[c].tx = None
  /\ \E flags \in SeqsUpTo({flapProfitable}, MaxOpps) :
       ticks' = [ticks EXCEPT ![c] =
         bidLoop([@ EXCEPT !.did = @ \cup {"flap"}], flags, "approve", "flop",
                 Len(flags))]
  /\ UNCHANGED <<keeperPc, timerOn, errors, stopCalled>>
  /\ UNCHANGED <<cfgVars, vaultVars, liqVars, bidVars, pegVars, extVars>>

\* flopMonitor.checkOpportunities() and the loop calling flopExecutor,
\* likewise.
PerformCheckFlop(c) ==
  /\ ticks[c].pc = "flop"
  /\ ticks[c].tx = None
  /\ \E flags \in SeqsUpTo({flopProfitable}, MaxOpps) :
       ticks' = [ticks EXCEPT ![c] =
         bidLoop([@ EXCEPT !.did = @ \cup {"flop"}], flags, "dent",
                 afterFlop(mode), 0)]
  /\ UNCHANGED <<keeperPc, timerOn, errors, stopCalled>>
  /\ UNCHANGED <<cfgVars, vaultVars, liqVars, bidVars, pegVars, extVars>>

\* pegKeeperService.checkAndArbitrage() is called.
PerformCheckPeg(c) ==
  /\ ticks[c].pc = "peg"
  /\ checkAndArbitrage(c)
  /\ ticks' = [ticks EXCEPT ![c].pc = "pegwait", ![c].did = @ \cup {"peg"}]
  /\ UNCHANGED <<keeperPc, timerOn, errors, stopCalled>>
  /\ UNCHANGED <<cfgVars, vaultVars, liqVars, bidVars, extVars>>

\* checkAndArbitrage() has returned.
PerformCheckPegReturn(c) ==
  /\ ticks[c].pc = "pegwait"
  /\ calls[c].pc = "done"
  /\ calls' = [calls EXCEPT ![c] = CallIdle]
  /\ ticks' = [ticks EXCEPT ![c].pc = "end"]
  /\ UNCHANGED <<keeperPc, timerOn, errors, stopCalled, now, lastArbTime>>
  /\ UNCHANGED <<cfgVars, vaultVars, liqVars, bidVars, extVars>>

\* performCheck returns; start() goes on after its initial check.
PerformCheckEnd(c) ==
  /\ ticks[c].pc = "end"
  /\ ticks' = [ticks EXCEPT ![c] = TickIdle]
  /\ keeperPc' = IF keeperPc = "initial" /\ c = FirstTick
                 THEN "running" ELSE keeperPc
  /\ UNCHANGED <<timerOn, errors, stopCalled>>
  /\ UNCHANGED <<cfgVars, vaultVars, liqVars, bidVars, pegVars, extVars>>

-----------------------------------------------------------------------------
(* FlopExecutor: one call of executeBid at a time.                         *)

FlopOpps == [id : {1, 2}, bid : Vals, maxLot : Vals]

\* A read of a balance: <<v>>, or <<>> when the read throws.
BalanceReads == {<<>>} \cup {<<v>> : v \in Vals}

FlopIdle == [pc |-> "idle", id |-> 0, bid |-> 0, maxLot |-> 0,
             kusdBalance |-> <<>>, entry |-> 0, result |-> "none"]

FlopInit ==
  /\ flop = FlopIdle
  /\ dents = <<>>
  /\ flopBidsExecuted = 0

\* The pre-flight of executeBid: the balance does not cover the bid.
flopInsufficientNever(kusdBalance, auctionBid) == FALSE

flopInsufficient(kusdBalance, auctionBid) == kusdBalance < auctionBid

\* executeBid up to the sending of the dent transaction.  The balance read
\* is an element of BalanceReads.
FlopExecuteBid(opportunity, read) ==
  /\ flop.pc = "idle"
  /\ flopBidsExecuted < MaxCount
  /\ LET entered == [FlopIdle EXCEPT !.id = opportunity.id,
                                     !.bid = opportunity.bid,
                                     !.maxLot = opportunity.maxLot,
                                     !.kusdBalance = read,
                                     !.entry = flopBidsExecuted]
     IN  IF read = <<>>
           THEN flop' = [entered EXCEPT !.pc = "done", !.result = "thrown"]
                /\ UNCHANGED dents
         ELSE IF flopInsufficient(read[1], opportunity.bid)
           THEN flop' = [entered EXCEPT !.pc = "done",
                                        !.result = "Insufficient KUSD balance in Vat"]
                /\ UNCHANGED dents
         ELSE IF ~flopperSet
           THEN flop' = [entered EXCEPT !.pc = "done",
                                        !.result = "Flopper not configured"]
                /\ UNCHANGED dents
         ELSE /\ flop' = [entered EXCEPT !.pc = "dent"]
              /\ dents' = Append(dents, [id |-> opportunity.id,
                                         lot |-> opportunity.maxLot,
                                         bid |-> opportunity.bid])
  /\ UNCHANGED flopBidsExecuted
  /\ UNCHANGED <<coreVars, contractVars, calcVars, barkVars, arbVars, healthVars, flapVars, vatVars, priceVars, aucVars>>

\* dentFlop: the transaction is mined or fails; executeBid counts a success.
FlopDentReceipt(success) ==
  /\ flop.pc = "dent"
  /\ flop' = [flop EXCEPT !.pc = "done",
                          !.result = IF success THEN "success" ELSE "failed"]
  /\ flopBidsExecuted' = IF success THEN flopBidsExecuted + 1 ELSE flopBidsExecuted
  /\ UNCHANGED dents
  /\ UNCHANGED <<coreVars, contractVars, calcVars, barkVars, arbVars, healthVars, flapVars, vatVars, priceVars, aucVars>>

\* executeBid returns its result to the caller.
FlopReturn ==
  /\ flop.pc = "done"
  /\ flop' = FlopIdle
  /\ dents' = <<>>
  /\ UNCHANGED flopBidsExecuted
  /\ UNCHANGED <<coreVars, contractVars, calcVars, barkVars, arbVars, healthVars, flapVars, vatVars, priceVars, aucVars>>

-----------------------------------------------------------------------------
(* FlapExecutor: one call of executeBid at a time.                         *)

FlapOpps == [id : {1, 2}, lot : Vals, minBid : Vals]

FlapIdle == [pc |-> "idle", id |-> 0, lot |-> 0, minBid |-> 0,
             sklcBalance |-> <<>>, approval |-> "none", result |-> "none"]

FlapInit ==
  /\ flap = FlapIdle
  /\ flapTxs = <<>>
  /\ flapBidsExecuted = 0

\* The transactions of executeBid, as sent to the chain.
approveTx(spender, amount) ==
  [fn |-> "approve", spender |-> spender, id |-> 0, lot |-> 0, amount |-> amount]

tendTx(id, lot, amount) ==
  [fn |-> "tend", spender |-> "none", id |-> id, lot |-> lot, amount |-> amount]

\* What executeBid does once approveSKLC has settled: approveSKLC throws
\* when the approval is not confirmed, and the throw ends executeBid.
afterApprovalAlwaysTend(confirmed) == "tend"

afterApproval(confirmed) == IF confirmed THEN "tend" ELSE "done"

\* executeBid up to the sending of the approval.  getSKLCBalance throws
\* without an sKLC contract, or when the read fails.
FlapExecuteBid(opportunity, read) ==
  /\ flap.pc = "idle"
  /\ flapBidsExecuted < MaxCount
  /\ sklcSet \/ read = <<>>
  /\ LET entered == [FlapIdle EXCEPT !.id = opportunity.id,
                                     !.lot = opportunity.lot,
                                     !.minBid = opportunity.minBid,
                                     !.sklcBalance = read]
     IN  IF read = <<>>
           THEN flap' = [entered EXCEPT !.pc = "done", !.result = "thrown"]
                /\ UNCHANGED flapTxs
         ELSE IF read[1] < opportunity.minBid
           THEN flap' = [entered EXCEPT !.pc = "done",
                                        !.result = "Insufficient sKLC balance"]
                /\ UNCHANGED flapTxs
         ELSE IF ~flapperSet
           THEN flap' = [entered EXCEPT !.pc = "done",
                                        !.result = "Flapper not configured"]
                /\ UNCHANGED flapTxs
         ELSE /\ flap' = [entered EXCEPT !.pc = "approve"]
              /\ flapTxs' = Append(flapTxs, approveTx("flapper", opportunity.minBid))
  /\ UNCHANGED flapBidsExecuted
  /\ UNCHANGED <<coreVars, contractVars, calcVars, barkVars, arbVars, healthVars, flopVars, vatVars, priceVars, aucVars>>

\* approveSKLC settles: the approval is confirmed, or sending or mining it
\* fails.  tendFlap follows in the first case.
FlapApproveReceipt(confirmed) ==
  /\ flap.pc = "approve"
  /\ IF afterApproval(confirmed) = "tend"
       THEN /\ flap' = [flap EXCEPT !.pc = "tend",
                          !.approval = IF confirmed THEN "confirmed" ELSE "failed"]
            /\ flapTxs' = Append(flapTxs, tendTx(flap.id, flap.lot, flap.minBid))
       ELSE /\ flap' = [flap EXCEPT !.pc = "done", !.approval = "failed",
                                    !.result = "thrown"]
            /\ UNCHANGED flapTxs
  /\ UNCHANGED flapBidsExecuted
  /\ UNCHANGED <<coreVars, contractVars, calcVars, barkVars, arbVars, healthVars, flopVars, vatVars, priceVars, aucVars>>

\* tendFlap: the transaction is mined or fails; executeBid counts a success.
FlapTendReceipt(success) ==
  /\ flap.pc = "tend"
  /\ flap' = [flap EXCEPT !.pc = "done",
                          !.result = IF success THEN "success" ELSE "failed"]
  /\ flapBidsExecuted' = IF success THEN flapBidsExecuted + 1 ELSE flapBidsExecuted
  /\ UNCHANGED flapTxs
  /\ UNCHANGED <<coreVars, contractVars, calcVars, barkVars, arbVars, healthVars, flopVars, vatVars, priceVars, aucVars>>

\* executeBid returns its result to the caller.
FlapReturn ==
  /\ flap.pc = "done"
  /\ flap' = FlapIdle
  /\ flapTxs' = <<>>
  /\ UNCHANGED flapBidsExecuted
  /\ UNCHANGED <<coreVars, contractVars, calcVars, barkVars, arbVars, healthVars, flopVars, vatVars, priceVars, aucVars>>

-----------------------------------------------------------------------------
(* VatBalanceManager: one call of ensureVatBalance at a time.              *)

\* The amounts of ensureVatBalance, and its reads of a balance: <<v>>, or <<>>
\* when the read throws.
VatAmounts == 0..(2 * MaxVal)
VatReads == {<<>>} \cup {<<v>> : v \in VatAmounts}

VatIdle == [pc |-> "idle", minBalance |-> 0, vatBalance |-> <<>>,
            walletBalance |-> <<>>, outcome |-> "none"]

VatInit ==
  /\ vatMgr = VatIdle
  /\ vatTxs = <<>>

\* ensureVatBalance up to its first transaction.  Each read is an element of
\* VatReads; the wallet is read only when the Vat balance is short.  An
\* error thrown by a read is logged and thrown again; the two early returns
\* return nothing.
EnsureVatBalance(minBalance, vatRead, walletRead) ==
  /\ vatMgr.pc = "idle"
  /\ LET entered == [VatIdle EXCEPT !.minBalance = minBalance,
                                    !.vatBalance = vatRead]
     IN  IF vatRead = <<>>
           THEN vatMgr' = [entered EXCEPT !.pc = "done", !.outcome = "thrown"]
                /\ UNCHANGED vatTxs
         ELSE IF vatRead[1] >= minBalance
           THEN vatMgr' = [entered EXCEPT !.pc = "done", !.outcome = "returned"]
                /\ UNCHANGED vatTxs
         ELSE IF walletRead = <<>>
           THEN vatMgr' = [entered EXCEPT !.pc = "done", !.outcome = "thrown"]
                /\ UNCHANGED vatTxs
         ELSE LET needed == minBalance - vatRead[1]
                  read == [entered EXCEPT !.walletBalance = walletRead]
              IN  IF walletRead[1] < needed
                    THEN vatMgr' = [read EXCEPT !.pc = "done",
                                                !.outcome = "returned"]
                         /\ UNCHANGED vatTxs
                  ELSE /\ vatMgr' = [read EXCEPT !.pc = "approve"]
                       /\ vatTxs' = Append(vatTxs,
                            [fn |-> "approve", amount |-> needed])
  /\ UNCHANGED <<coreVars, contractVars, calcVars, barkVars, arbVars, healthVars, flopVars, flapVars, priceVars, aucVars>>

\* moveToVat: the approval of KusdJoin is mined, and join is sent; or it
\* fails, and the error is thrown to the caller of ensureVatBalance.
VatApproveReceipt(confirmed) ==
  /\ vatMgr.pc = "approve"
  /\ IF confirmed
       THEN /\ vatMgr' = [vatMgr EXCEPT !.pc = "join"]
            /\ vatTxs' = Append(vatTxs,
                 [fn |-> "join",
                  amount |-> vatMgr.minBalance - vatMgr.vatBalance[1]])
       ELSE /\ vatMgr' = [vatMgr EXCEPT !.pc = "done", !.outcome = "thrown"]
            /\ UNCHANGED vatTxs
  /\ UNCHANGED <<coreVars, contractVars, calcVars, barkVars, arbVars, healthVars, flopVars, flapVars, priceVars, aucVars>>

\* moveToVat: join is mined, or fails.
VatJoinReceipt(confirmed) ==
  /\ vatMgr.pc = "join"
  /\ vatMgr' = [vatMgr EXCEPT !.pc = "done",
                  !.outcome = IF confirmed THEN "returned" ELSE "thrown"]
  /\ UNCHANGED vatTxs
  /\ UNCHANGED <<coreVars, contractVars, calcVars, barkVars, arbVars, healthVars, flopVars, flapVars, priceVars, aucVars>>

\* The caller has the outcome of ensureVatBalance.
VatReturn ==
  /\ vatMgr.pc = "done"
  /\ vatMgr' = VatIdle
  /\ vatTxs' = <<>>
  /\ UNCHANGED <<coreVars, contractVars, calcVars, barkVars, arbVars, healthVars, flopVars, flapVars, priceVars, aucVars>>

-----------------------------------------------------------------------------
(* PriceService: one call of getPrice at a time.  Here a unit of now is    *)
(* 15 s.                                                                   *)

\* CACHE_TTL (30 s).
CACHE_TTL == 2

\* 10n ** 9n: a price in WAD is made a price in RAY.
RAY_PER_WAD == 1000000000

\* oracle.peek(): price (in WAD) and valid, or <<>> when the call fails.
OraclePrices == {1, 2}
PeekReads == {<<>>} \cup {<<[price |-> p, valid |-> v]>> :
                            p \in OraclePrices, v \in BOOLEAN}

PriceIdle == [pc |-> "idle", type |-> None, peek |-> <<>>, peeked |-> FALSE,
              result |-> <<>>]

PriceInit ==
  /\ priceCache = [t \in TypeSet |-> <<>>]
  /\ priceCall = PriceIdle

\* An entry that never expires.
cacheValidForever(cached, t) == cached # <<>>

\* cached && Date.now() - cached.timestamp < CACHE_TTL
cacheValid(cached, t) == cached # <<>> /\ t - cached[1].timestamp < CACHE_TTL

\* getPrice(collateralType) up to the call of the oracle: the cached price is
\* returned, or peek() is called.
GetPrice(collateralType) ==
  /\ priceCall.pc = "idle"
  /\ LET cached == priceCache[collateralType]
         entered == [PriceIdle EXCEPT !.type = collateralType]
     IN  priceCall' =
           IF cacheValid(cached, now)
           THEN [entered EXCEPT !.pc = "done", !.result = <<cached[1].price>>]
           ELSE [entered EXCEPT !.pc = "peek", !.peeked = TRUE]
  /\ UNCHANGED priceCache
  /\ UNCHANGED <<coreVars, contractVars, calcVars, barkVars, arbVars, healthVars, flopVars, flapVars, vatVars, aucVars>>

\* peek() answers: a failed call or an invalid price is thrown to the caller
\* of getPrice; a valid price is converted, cached with Date.now() and
\* returned.
GetPricePeek(read) ==
  /\ priceCall.pc = "peek"
  /\ IF read = <<>> \/ ~read[1].valid
       THEN /\ priceCall' = [priceCall EXCEPT !.pc = "done", !.peek = read]
            /\ UNCHANGED priceCache
       ELSE LET priceInRay == read[1].price * RAY_PER_WAD
            IN  /\ priceCall' = [priceCall EXCEPT !.pc = "done", !.peek = read,
                                                  !.result = <<priceInRay>>]
                /\ priceCache' = [priceCache EXCEPT ![priceCall.type] =
                     <<[price |-> priceInRay, timestamp |-> now]>>]
  /\ UNCHANGED <<coreVars, contractVars, calcVars, barkVars, arbVars, healthVars, flopVars, flapVars, vatVars, aucVars>>

\* The caller has the outcome of getPrice.
GetPriceReturn ==
  /\ priceCall.pc = "done"
  /\ priceCall' = PriceIdle
  /\ UNCHANGED priceCache
  /\ UNCHANGED <<coreVars, contractVars, calcVars, barkVars, arbVars, healthVars, flopVars, flapVars, vatVars, aucVars>>

-----------------------------------------------------------------------------
(* AuctionMonitor alone: contractService.getAuction and                    *)
(* priceService.getPrice are its reads.  The tracked auctions are followed *)
(* by their ids, the only field checkAuctions reads of a tracked auction.  *)
(* Here a unit of now is 10800 s, and prices are in RAY / 10^25.           *)

\* The number of tracked auctions is followed up to this value.
MaxTracked == 2

\* The duration checkAuctions passes to calculateAuctionPrice (21600 s).
tau == 2

\* config.minProfitPercentage (5), in hundredths of a percent.
minProfitPercentage == 500

AuctionIds == {1, 2}

\* contractService.getAuction: <<>> for null, or the auction read.
AuctionReads ==
  {<<>>,
   <<[active |-> FALSE, top |-> 100, tic |-> 1, lot |-> 0]>>,
   <<[active |-> TRUE, top |-> 100, tic |-> 1, lot |-> 1]>>,
   <<[active |-> TRUE, top |-> 40, tic |-> 2, lot |-> 2]>>}

\* priceService.getPrice: <<>> when it throws, or the market price.
MarketReads == {<<>>, <<21>>, <<60>>}

\* A calculateAuctionPrice that rounds the price up.
calculateAuctionPriceCeil(top, tic, duration, currentTime) ==
  LET elapsed == currentTime - tic
  IN  IF elapsed <= 0 THEN top
      ELSE IF elapsed >= duration THEN 0
      ELSE (top * (duration - elapsed) + duration - 1) \div duration

\* calculateAuctionPrice: linear decrease from top to 0 over tau.
calculateAuctionPrice(top, tic, duration, currentTime) ==
  LET elapsed == currentTime - tic
  IN  IF elapsed <= 0 THEN top
      ELSE IF elapsed >= duration THEN 0
      ELSE (top * (duration - elapsed)) \div duration

\* ilkToCollateralType: the name a bytes32 ilk spells, if it is one of the
\* collateral types, else None.
ilkToCollateralType(ilk) ==
  IF \E t \in TypeSet : collateralTypeToIlk(t) = ilk
  THEN CHOOSE t \in TypeSet : collateralTypeToIlk(t) = ilk
  ELSE None

\* The ilk of the entry of activeAuctions (a Map, in insertion order) at k.
entryOf(map, ilk) ==
  IF \E k \in 1..Len(map) : map[k].ilk = ilk
  THEN CHOOSE k \in 1..Len(map) : map[k].ilk = ilk
  ELSE 0

RECURSIVE totalAuctionCount(_)
totalAuctionCount(map) ==
  IF map = <<>> THEN 0
  ELSE Len(Head(map).auctions) + totalAuctionCount(Tail(map))

\* addAuction, once getAuction has answered an active auction: the auction
\* is pushed to the list of its ilk.
addAuction(map, ilk, auctionId) ==
  LET k == entryOf(map, ilk)
  IN  IF k = 0 THEN Append(map, [ilk |-> ilk, auctions |-> <<auctionId>>])
      ELSE [map EXCEPT ![k].auctions = Append(@, auctionId)]

\* removeAuction: the first entry with the id is spliced out of the list.
removeAuction(map, ilk, auctionId) ==
  LET k == entryOf(map, ilk)
  IN  IF k = 0 THEN map
      ELSE LET a == map[k].auctions
           IN  IF \E i \in 1..Len(a) : a[i] = auctionId
               THEN LET i == CHOOSE i \in 1..Len(a) :
                               a[i] = auctionId /\ \A j \in 1..(i - 1) : a[j] # auctionId
                    IN  [map EXCEPT ![k].auctions =
                           SubSeq(a, 1, i - 1) \o SubSeq(a, i + 1, Len(a))]
               ELSE map

\* The test of checkAuctions on the profit percentage, with a strict
\* comparison.
profitableStrictly(pct) == pct > minProfitPercentage

\* profitPercentage >= this.config.minProfitPercentage
profitable(pct) == pct >= minProfitPercentage

NoRead == [ilk |-> None, id |-> 0, auction |-> <<>>, time |-> 0,
           market |-> <<>>]

\* k, i: the position of the two iterators of checkAuctions, over the map
\* and over the list of entry k (the next element is auctions[i]).
\* opportunities: those pushed so far.  last: what the last iteration read.
\* closed: the tracked auctions whose sale on chain has tab = 0 when
\* checkAuctions is called (a closed sale stays closed).
AuctionIdle == [pc |-> "idle", k |-> 0, i |-> 0, opportunities |-> <<>>,
                last |-> NoRead, closed |-> {}]

\* The auctions (ilk, id) of the map.
trackedAuctions(map) ==
  UNION {{<<map[k].ilk, map[k].auctions[i]>> : i \in 1..Len(map[k].auctions)} :
           k \in 1..Len(map)}

AuctionInit ==
  /\ activeAuctions = <<>>
  /\ aucScan = AuctionIdle

\* A Bark event: its handler calls addAuction, which reads the auction and
\* tracks it when it is active.
OnDogBark(ilk, auctionId, read) ==
  /\ totalAuctionCount(activeAuctions) < MaxTracked
  /\ activeAuctions' =
       IF read # <<>> /\ read[1].active
       THEN addAuction(activeAuctions, ilk, auctionId)
       ELSE activeAuctions
  /\ UNCHANGED aucScan
  /\ UNCHANGED <<coreVars, contractVars, calcVars, barkVars, arbVars, healthVars, flopVars, flapVars, vatVars, priceVars>>

\* checkAuctions is called, while the sales of closed are closed on chain.
CheckAuctionsBegin(closed) ==
  /\ aucScan.pc = "idle"
  /\ aucScan' = [AuctionIdle EXCEPT !.pc = "scan", !.k = 1, !.i = 1,
                                    !.closed = closed]
  /\ UNCHANGED activeAuctions
  /\ UNCHANGED <<coreVars, contractVars, calcVars, barkVars, arbVars, healthVars, flopVars, flapVars, vatVars, priceVars>>

\* The iterators of checkAuctions move to the next list when the current one
\* is exhausted, and the loops end after the last list.
CheckAuctionsNext ==
  /\ aucScan.pc = "scan"
  /\ IF aucScan.k > Len(activeAuctions) THEN TRUE
     ELSE aucScan.i > Len(activeAuctions[aucScan.k].auctions)
  /\ aucScan' = IF aucScan.k > Len(activeAuctions)
                THEN [aucScan EXCEPT !.pc = "done"]
                ELSE [aucScan EXCEPT !.k = @ + 1, !.i = 1]
  /\ UNCHANGED activeAuctions
  /\ UNCHANGED <<coreVars, contractVars, calcVars, barkVars, arbVars, healthVars, flopVars, flapVars, vatVars, priceVars>>

\* One iteration of checkAuctions, for the auction at the iterators.  The
\* auction is read again: when it is gone or not active it is removed; when
\* the price read throws, the error is caught and logged; otherwise the
\* opportunity is pushed if it is profitable.
CheckAuctionsStep(read, market) ==
  /\ aucScan.pc = "scan"
  /\ aucScan.k <= Len(activeAuctions)
  /\ aucScan.i <= Len(activeAuctions[aucScan.k].auctions)
  /\ LET ilk == activeAuctions[aucScan.k].ilk
         auctionId == activeAuctions[aucScan.k].auctions[aucScan.i]
         seen == [NoRead EXCEPT !.ilk = ilk, !.id = auctionId,
                                !.auction = read, !.time = now]
     IN  /\ <<ilk, auctionId>> \in aucScan.closed
              => (IF read = <<>> THEN TRUE ELSE ~read[1].active)
         /\ IF read = <<>> \/ ~read[1].active
            THEN /\ activeAuctions' = removeAuction(activeAuctions, ilk, auctionId)
                 /\ aucScan' = [aucScan EXCEPT !.i = @ + 1, !.last = seen]
            ELSE
              LET currentPrice ==
                    calculateAuctionPrice(read[1].top, read[1].tic, tau, now)
              IN  /\ UNCHANGED activeAuctions
                  /\ IF ilkToCollateralType(ilk) = None \/ market = <<>>
                     THEN aucScan' = [aucScan EXCEPT !.i = @ + 1,
                            !.last = [seen EXCEPT !.market =
                               IF ilkToCollateralType(ilk) = None THEN <<>> ELSE market]]
                     ELSE
                       LET pct == calculateProfitPercentage(currentPrice, market[1])
                       IN  aucScan' = [aucScan EXCEPT
                             !.i = @ + 1,
                             !.last = [seen EXCEPT !.market = market],
                             !.opportunities =
                               IF profitable(pct)
                               THEN Append(@, [ilk |-> ilk, id |-> auctionId,
                                               currentPrice |-> currentPrice,
                                               marketPrice |-> market[1],
                                               profitPercentage |-> pct,
                                               maxTake |-> read[1].lot])
                               ELSE @]
  /\ UNCHANGED <<coreVars, contractVars, calcVars, barkVars, arbVars, healthVars, flopVars, flapVars, vatVars, priceVars>>

\* checkAuctions has returned its opportunities.
CheckAuctionsEnd ==
  /\ aucScan.pc = "done"
  /\ aucScan' = AuctionIdle
  /\ UNCHANGED activeAuctions
  /\ UNCHANGED <<coreVars, contractVars, calcVars, barkVars, arbVars, healthVars, flopVars, flapVars, vatVars, priceVars>>

-----------------------------------------------------------------------------
(* The calculations (utils/calculations), applied to inputs fixed at the    *)
(* start of a behaviour.                                                    *)

\* Largest starting price, start time and duration given to
\* calculateAuctionPrice.
MaxTop == 3
MaxTic == 2
MaxTau == 3
\* Largest ink, art, spot and rate given to the vault calculations.
MaxRatioVal == 3

CalcTimes == 0..(MaxTic + MaxTau + 1)
PriceCalcInputs ==
  {[top |-> t, tic |-> c, tau |-> d, evals |-> <<>>] :
     t \in 0..MaxTop, c \in 0..MaxTic, d \in 1..MaxTau}
RatioCalcInputs ==
  {[ink |-> i, art |-> a, spot |-> s, rate |-> r, ratio |-> <<>>, safe |-> <<>>] :
     i \in 0..MaxRatioVal, a \in 0..MaxRatioVal, s \in 0..MaxRatioVal, r \in 0..MaxRatioVal}

PriceCalcIdle == [top |-> 0, tic |-> 0, tau |-> 1, evals |-> <<>>]
RatioCalcIdle == [ink |-> 0, art |-> 0, spot |-> 0, rate |-> 0, ratio |-> <<>>, safe |-> <<>>]

CalcInit == priceCalc = PriceCalcIdle /\ ratioCalc = RatioCalcIdle

\* calculateCollateralizationRatio: the percentage, or Infinity when there is
\* no debt.  Number(ratio) is exact for a ratio below 2^53, which holds every
\* ratio of the model.
Infinity == [infinite |-> TRUE, value |-> 0]
calculateCollateralizationRatio(ink, art, spot, rate) ==
  IF art = 0 THEN Infinity
  ELSE LET collateralValue == ink * spot
           debtValue == art * rate
       IN  IF debtValue = 0 THEN Infinity
           ELSE [infinite |-> FALSE, value |-> (collateralValue * 100) \div debtValue]

\* A call of calculateAuctionPrice at currentTime; the last two calls are kept.
CalculateAuctionPrice(currentTime) ==
  /\ LET e == [currentTime |-> currentTime,
               price |-> calculateAuctionPrice(priceCalc.top, priceCalc.tic, priceCalc.tau, currentTime)]
     IN  priceCalc' = [priceCalc EXCEPT !.evals =
                         IF Len(@) = 2 THEN <<@[2], e>> ELSE Append(@, e)]
  /\ UNCHANGED ratioCalc
  /\ UNCHANGED <<coreVars, contractVars, barkVars, arbVars, healthVars, flopVars, flapVars, vatVars, priceVars, aucVars>>

\* A call of calculateCollateralizationRatio on the vault.
CalculateRatio ==
  /\ ratioCalc.ratio = <<>>
  /\ ratioCalc' = [ratioCalc EXCEPT !.ratio =
       <<calculateCollateralizationRatio(ratioCalc.ink, ratioCalc.art, ratioCalc.spot, ratioCalc.rate)>>]
  /\ UNCHANGED priceCalc
  /\ UNCHANGED <<coreVars, contractVars, barkVars, arbVars, healthVars, flopVars, flapVars, vatVars, priceVars, aucVars>>

\* A call of isVaultSafe on the vault.
CalculateSafe ==
  /\ ratioCalc.safe = <<>>
  /\ ratioCalc' = [ratioCalc EXCEPT !.safe =
       <<isVaultSafe(ratioCalc.ink, ratioCalc.art, ratioCalc.spot, ratioCalc.rate)>>]
  /\ UNCHANGED priceCalc
  /\ UNCHANGED <<coreVars, contractVars, barkVars, arbVars, healthVars, flopVars, flapVars, vatVars, priceVars, aucVars>>

-----------------------------------------------------------------------------
(* The Bark handler of AuctionMonitor together with ContractService: the   *)
(* auction is read through getAuction, as ContractService computes it.     *)

\* The tab of a sale on chain.
SaleTabs == 0..(2 * MaxVal)

BarkIdle == [pc |-> "idle", ilk |-> None, id |-> 0, tab |-> 0, auction |-> <<>>]

BarkInit == barkCall = BarkIdle

\* sale.tab.gt(0) in getAuction: sale.tab is a bigint (ethers 6), which has
\* no method gt, so the call throws a TypeError: <<>>.
saleTabGt(tab) == <<>>

\* ContractService.getAuction: null (<<>>) without a clipper for the ilk, and
\* when the read of sales(id) or the building of the auction throws.  sale
\* is <<>> when the read throws, else <<tab>>.
getAuction(ilk, auctionId, sale) ==
  IF getClipper(ilk) = None THEN <<>>
  ELSE IF sale = <<>> THEN <<>>
  ELSE LET active == saleTabGt(sale[1])
       IN  IF active = <<>> THEN <<>>
           ELSE <<[id |-> auctionId, ilk |-> ilk, tab |-> sale[1], active |-> active[1]]>>

\* A Bark event for auction (ilk, auctionId), whose sale has the given tab
\* on chain: the handler calls addAuction, which calls getAuction.
OnBarkEvent(ilk, auctionId, tab) ==
  /\ barkCall.pc = "idle"
  /\ totalAuctionCount(activeAuctions) < MaxTracked
  /\ barkCall' = [BarkIdle EXCEPT !.pc = "read", !.ilk = ilk, !.id = auctionId, !.tab = tab]
  /\ UNCHANGED <<clippers, mode, emergencyStop, aucVars>>
  /\ UNCHANGED <<vaultVars, liqVars, bidVars, pegVars, keeperVars>>
  /\ UNCHANGED <<contractVars, calcVars, arbVars, healthVars, flopVars, flapVars, vatVars, priceVars>>

\* getAuction has answered (readOk: the read of sales(id) did not throw), and
\* addAuction tracks the auction when it is active.
AddAuctionRead(readOk) ==
  /\ barkCall.pc = "read"
  /\ LET auction == getAuction(barkCall.ilk, barkCall.id,
                               IF readOk THEN <<barkCall.tab>> ELSE <<>>)
     IN  /\ barkCall' = [barkCall EXCEPT !.pc = "done", !.auction = auction]
         /\ activeAuctions' =
              IF auction # <<>> /\ auction[1].active
              THEN addAuction(activeAuctions, barkCall.ilk, barkCall.id)
              ELSE activeAuctions
  /\ UNCHANGED <<clippers, mode, emergencyStop, aucScan>>
  /\ UNCHANGED <<vaultVars, liqVars, bidVars, pegVars, keeperVars>>
  /\ UNCHANGED <<contractVars, calcVars, arbVars, healthVars, flopVars, flapVars, vatVars, priceVars>>

\* addAuction returns.
AddAuctionReturn ==
  /\ barkCall.pc = "done"
  /\ barkCall' = BarkIdle
  /\ UNCHANGED <<clippers, mode, emergencyStop, aucVars>>
  /\ UNCHANGED <<vaultVars, liqVars, bidVars, pegVars, keeperVars>>
  /\ UNCHANGED <<contractVars, calcVars, arbVars, healthVars, flopVars, flapVars, vatVars, priceVars>>

-----------------------------------------------------------------------------
(* performCheck's bookkeeping of health.totalProfit: the auction phase and *)
(* the peg phase of the ticks, one after the other.  What executeBids and  *)
(* checkAndArbitrage return is an input.                                   *)

\* Profits are followed up to this total.
MaxProfit == 3

HealthIdle == [totalProfit |-> 0, bidsExecuted |-> 0, pegArbsExecuted |-> 0]

\* healthTick.phase: the phase the tick is at; healthTick.pegProfits: the
\* sum of the profits of the peg arbitrages executed so far.
HealthInit ==
  /\ health = HealthIdle
  /\ healthTick = [phase |-> "auction", pegProfits |-> 0]

\* health after executeBids: bidsExecuted and totalProfit are set to the
\* executor's totals.
afterBids(h, total, bids) ==
  [h EXCEPT !.bidsExecuted = bids, !.totalProfit = total]

\* The auction phase of a tick: when checkAuctions has found opportunities,
\* executeBids runs, the executor counts its successful takes and adds
\* their profit, and the health record is brought up to date.
PerformCheckAuctionPhase(found, succeeded, gained) ==
  /\ healthTick.phase = "auction"
  /\ totalProfit + gained <= MaxProfit
  /\ bidsExecuted + succeeded <= MaxCount
  /\ succeeded = 0 => gained = 0
  /\ healthTick' = [healthTick EXCEPT !.phase = "peg"]
  /\ IF found
     THEN /\ totalProfit' = totalProfit + gained
          /\ bidsExecuted' = bidsExecuted + succeeded
          /\ health' = afterBids(health, totalProfit', bidsExecuted')
     ELSE UNCHANGED <<totalProfit, bidsExecuted, health>>
  /\ UNCHANGED <<bid, takes>>
  /\ UNCHANGED <<cfgVars, vaultVars, liqVars, pegVars, keeperVars>>
  /\ UNCHANGED <<contractVars, calcVars, barkVars, arbVars, flopVars, flapVars, vatVars, priceVars, aucVars>>

\* The peg phase of a tick: an executed arbitrage is counted and its profit
\* added.
PerformCheckPegPhase(executed, profit) ==
  /\ healthTick.phase = "peg"
  /\ healthTick.pegProfits + profit <= MaxProfit
  /\ health.pegArbsExecuted < MaxCount
  /\ IF executed
     THEN /\ health' = [health EXCEPT !.pegArbsExecuted = @ + 1,
                                      !.totalProfit = @ + profit]
          /\ healthTick' = [phase |-> "auction",
                            pegProfits |-> healthTick.pegProfits + profit]
     ELSE /\ healthTick' = [healthTick EXCEPT !.phase = "auction"]
          /\ UNCHANGED health
  /\ UNCHANGED <<coreVars, contractVars, calcVars, barkVars, arbVars, flopVars, flapVars, vatVars, priceVars, aucVars>>

\* The components added to the keeper, with every optional contract
\* configured.
AllContracts == flapperSet = TRUE /\ flopperSet = TRUE /\ sklcSet = TRUE

ExtInit == FlopInit /\ FlapInit /\ VatInit /\ PriceInit /\ AuctionInit /\ CalcInit /\ BarkInit
             /\ ArbInit /\ HealthInit

-----------------------------------------------------------------------------
(* Specifications. *)

\* VaultMonitor alone.
InitVault ==
  /\ mode = "full" /\ emergencyStop = FALSE /\ clippers \in SUBSET TypeSet
  /\ VaultInit /\ LiqInit /\ BidInit /\ PegInit /\ KeeperInit /\ ExtInit /\ AllContracts

NextVault ==
  \/ VaultStart
  \/ \E ilk \in IlkTags, urnAddress \in UrnAddrs : OnVatFrob(ilk, urnAddress)
  \/ VaultStop
  \/ CheckVaultsBegin
  \/ CheckVaultsIlk
  \/ CheckVaultsUrn
  \/ CheckVaultsEnd

SpecVault == InitVault /\ [][NextVault]_vars

\* LiquidationExecutor alone.
InitLiq ==
  /\ mode = "full" /\ emergencyStop \in BOOLEAN /\ clippers = TypeSet
  /\ VaultInit /\ LiqInit /\ BidInit /\ PegInit /\ KeeperInit /\ ExtInit /\ AllContracts

NextLiq ==
  \/ \E opps \in SeqsUpTo(LiqOpps, MaxOpps) : ExecuteLiquidations(opps)
  \/ ExecuteLiquidation
  \/ \E success \in BOOLEAN : BarkReceipt(success)
  \/ LiquidationDelay
  \/ ExecuteLiquidationsEnd

SpecLiq == InitLiq /\ [][NextLiq]_vars

\* BiddingExecutor alone.
InitBid ==
  /\ mode = "full" /\ emergencyStop \in BOOLEAN /\ clippers \in SUBSET TypeSet
  /\ VaultInit /\ LiqInit /\ BidInit /\ PegInit /\ KeeperInit /\ ExtInit /\ AllContracts

NextBid ==
  \/ \E opps \in BidBatches : ExecuteBids(opps)
  \/ ExecuteBid
  \/ \E success \in BOOLEAN : TakeReceipt(success)
  \/ BidDelay
  \/ ExecuteBidsEnd

SpecBid == InitBid /\ [][NextBid]_vars

\* PegKeeperService alone, called at any time by its user.
InitPeg ==
  /\ mode = "full" /\ emergencyStop = FALSE /\ clippers = TypeSet
  /\ VaultInit /\ LiqInit /\ BidInit /\ PegInit /\ KeeperInit /\ ExtInit /\ AllContracts

NextPeg ==
  \/ \E c \in CallIds : PegCall(c)
  \/ \E c \in CallIds : PegCheck(c)
  \/ \E c \in CallIds : PegTxConfirmed(c)
  \/ \E c \in CallIds : PegTxFailed(c)
  \/ PegClock

SpecPeg == InitPeg /\ [][NextPeg]_vars

\* KUSDKeeper: the orchestrator, with the peg service it calls.
Init ==
  /\ mode \in Modes /\ emergencyStop \in BOOLEAN /\ clippers = TypeSet
  /\ VaultInit /\ LiqInit /\ BidInit /\ PegInit /\ KeeperInit /\ ExtInit /\ AllContracts

Next ==
  \/ KeeperStart
  \/ \E c \in CallIds : TimerFire(c)
  \/ KeeperShutdown
  \/ \E c \in CallIds : PerformCheckVaults(c)
  \/ \E c \in CallIds : PerformCheckLiquidation(c)
  \/ \E c \in CallIds : PerformCheckAuctions(c)
  \/ \E c \in CallIds : PerformCheckBid(c)
  \/ \E c \in CallIds : PerformCheckReceipt(c)
  \/ \E c \in CallIds : PerformCheckFailed(c)
  \/ \E c \in CallIds : PerformCheckFlap(c)
  \/ \E c \in CallIds : PerformCheckFlop(c)
  \/ \E c \in CallIds : PerformCheckPeg(c)
  \/ \E c \in CallIds : PegCheck(c)
  \/ \E c \in CallIds : PegTxConfirmed(c)
  \/ \E c \in CallIds : PegTxFailed(c)
  \/ \E c \in CallIds : PerformCheckPegReturn(c)
  \/ \E c \in CallIds : PerformCheckEnd(c)

Spec == Init /\ [][Next]_vars

\* KUSDKeeper as a class: start() and stop() called by its user, no signal.
\* The mode is kick, in which performCheck takes the steps below only.
InitStop ==
  /\ mode = "kick" /\ emergencyStop = FALSE /\ clippers = TypeSet
  /\ VaultInit /\ LiqInit /\ BidInit /\ PegInit /\ KeeperInit /\ ExtInit /\ AllContracts

NextStop ==
  \/ KeeperStart
  \/ KeeperStop
  \/ \E c \in CallIds : TimerFire(c)
  \/ \E c \in CallIds : PerformCheckVaults(c)
  \/ \E c \in CallIds : PerformCheckLiquidation(c)
  \/ \E c \in CallIds : PerformCheckReceipt(c)
  \/ \E c \in CallIds : PerformCheckFailed(c)
  \/ \E c \in CallIds : PerformCheckFlap(c)
  \/ \E c \in CallIds : PerformCheckFlop(c)
  \/ \E c \in CallIds : PerformCheckEnd(c)

SpecStop == InitStop /\ [][NextStop]_vars

\* FlopExecutor alone.
InitFlop ==
  /\ mode = "full" /\ emergencyStop = FALSE /\ clippers = TypeSet
  /\ VaultInit /\ LiqInit /\ BidInit /\ PegInit /\ KeeperInit /\ ExtInit
  /\ flopperSet \in BOOLEAN /\ flapperSet = TRUE /\ sklcSet = TRUE

NextFlop ==
  \/ \E opportunity \in FlopOpps, read \in BalanceReads :
       FlopExecuteBid(opportunity, read)
  \/ \E success \in BOOLEAN : FlopDentReceipt(success)
  \/ FlopReturn

SpecFlop == InitFlop /\ [][NextFlop]_vars

\* FlapExecutor alone.
InitFlap ==
  /\ mode = "full" /\ emergencyStop = FALSE /\ clippers = TypeSet
  /\ VaultInit /\ LiqInit /\ BidInit /\ PegInit /\ KeeperInit /\ ExtInit
  /\ flopperSet = TRUE /\ flapperSet \in BOOLEAN /\ sklcSet \in BOOLEAN

NextFlap ==
  \/ \E opportunity \in FlapOpps, read \in BalanceReads :
       FlapExecuteBid(opportunity, read)
  \/ \E confirmed \in BOOLEAN : FlapApproveReceipt(confirmed)
  \/ \E success \in BOOLEAN : FlapTendReceipt(success)
  \/ FlapReturn

SpecFlap == InitFlap /\ [][NextFlap]_vars

\* VatBalanceManager alone.
InitVat ==
  /\ mode = "full" /\ emergencyStop = FALSE /\ clippers = TypeSet
  /\ VaultInit /\ LiqInit /\ BidInit /\ PegInit /\ KeeperInit /\ ExtInit /\ AllContracts

NextVat ==
  \/ \E minBalance \in VatAmounts, vatRead \in VatReads, walletRead \in VatReads :
       EnsureVatBalance(minBalance, vatRead, walletRead)
  \/ \E confirmed \in BOOLEAN : VatApproveReceipt(confirmed)
  \/ \E confirmed \in BOOLEAN : VatJoinReceipt(confirmed)
  \/ VatReturn

SpecVat == InitVat /\ [][NextVat]_vars

\* PriceService alone, called at any time by its user.
InitPrice ==
  /\ mode = "full" /\ emergencyStop = FALSE /\ clippers = TypeSet
  /\ VaultInit /\ LiqInit /\ BidInit /\ PegInit /\ KeeperInit /\ ExtInit /\ AllContracts

NextPrice ==
  \/ \E collateralType \in TypeSet : GetPrice(collateralType)
  \/ \E read \in PeekReads : GetPricePeek(read)
  \/ GetPriceReturn
  \/ PegClock

SpecPrice == InitPrice /\ [][NextPrice]_vars

\* AuctionMonitor alone.
InitAuction ==
  /\ mode = "full" /\ emergencyStop = FALSE /\ clippers = TypeSet
  /\ VaultInit /\ LiqInit /\ BidInit /\ PegInit /\ KeeperInit /\ ExtInit /\ AllContracts

NextAuction ==
  \/ \E ilk \in IlkTags, auctionId \in AuctionIds, read \in AuctionReads :
       OnDogBark(ilk, auctionId, read)
  \/ \E closed \in SUBSET trackedAuctions(activeAuctions) : CheckAuctionsBegin(closed)
  \/ CheckAuctionsNext
  \/ \E read \in AuctionReads, market \in MarketReads :
       CheckAuctionsStep(read, market)
  \/ CheckAuctionsEnd
  \/ PegClock

SpecAuction == InitAuction /\ [][NextAuction]_vars

\* calculateAuctionPrice alone.
InitAuctionPrice ==
  /\ mode = "full" /\ emergencyStop = FALSE /\ clippers = TypeSet
  /\ VaultInit /\ LiqInit /\ BidInit /\ PegInit /\ KeeperInit
  /\ FlopInit /\ FlapInit /\ VatInit /\ PriceInit /\ AuctionInit /\ BarkInit /\ ArbInit /\ HealthInit /\ AllContracts
  /\ priceCalc \in PriceCalcInputs /\ ratioCalc = RatioCalcIdle

NextAuctionPrice == \E currentTime \in CalcTimes : CalculateAuctionPrice(currentTime)

SpecAuctionPrice == InitAuctionPrice /\ [][NextAuctionPrice]_vars

\* The vault calculations alone.
InitRatio ==
  /\ mode = "full" /\ emergencyStop = FALSE /\ clippers = TypeSet
  /\ VaultInit /\ LiqInit /\ BidInit /\ PegInit /\ KeeperInit
  /\ FlopInit /\ FlapInit /\ VatInit /\ PriceInit /\ AuctionInit /\ BarkInit /\ ArbInit /\ HealthInit /\ AllContracts
  /\ priceCalc = PriceCalcIdle /\ ratioCalc \in RatioCalcInputs

NextRatio == CalculateRatio \/ CalculateSafe

SpecRatio == InitRatio /\ [][NextRatio]_vars

\* The Bark handler of AuctionMonitor with ContractService, for every
\* configuration of the clippers.
InitBark ==
  /\ mode = "full" /\ emergencyStop = FALSE /\ clippers \in SUBSET TypeSet
  /\ VaultInit /\ LiqInit /\ BidInit /\ PegInit /\ KeeperInit /\ ExtInit /\ AllContracts

NextBark ==
  \/ \E ilk \in IlkTags, auctionId \in AuctionIds, tab \in SaleTabs :
       OnBarkEvent(ilk, auctionId, tab)
  \/ \E readOk \in BOOLEAN : AddAuctionRead(readOk)
  \/ AddAuctionReturn

SpecBark == InitBark /\ [][NextBark]_vars

\* One peg arbitrage, leg by leg.
InitArb ==
  /\ mode = "full" /\ emergencyStop = FALSE /\ clippers = TypeSet
  /\ VaultInit /\ LiqInit /\ BidInit /\ PegInit /\ KeeperInit /\ ExtInit /\ AllContracts

NextArb ==
  \/ \E gem \in ArbGemHeld, kusd \in ArbKusdHeld : ArbWallet(gem, kusd)
  \/ \E usdcReserve \in ArbReserves, quote \in QuoteReads :
       arbHighPrice(usdcReserve, quote)
  \/ \E usdcReserve \in ArbReserves, pocketBalance \in ArbPocketReads,
        quote \in QuoteReads, tout \in ToutReads :
       arbLowPrice(usdcReserve, pocketBalance, quote, tout)
  \/ \E slip \in ArbSlips : ArbTxConfirmed(slip)
  \/ ArbFailed

SpecArb == InitArb /\ [][NextArb]_vars

\* The bookkeeping of health.totalProfit over the ticks.
InitHealth ==
  /\ mode = "full" /\ emergencyStop = FALSE /\ clippers = TypeSet
  /\ VaultInit /\ LiqInit /\ BidInit /\ PegInit /\ KeeperInit /\ ExtInit /\ AllContracts

NextHealth ==
  \/ \E found \in BOOLEAN, succeeded \in 0..MaxOpps, gained \in 0..MaxProfit :
       PerformCheckAuctionPhase(found, succeeded, gained)
  \/ \E executed \in BOOLEAN, profit \in 0..MaxProfit :
       PerformCheckPegPhase(executed, profit)

SpecHealth == InitHealth /\ [][NextHealth]_vars

-----------------------------------------------------------------------------
(* Properties. *)

\* C1: every bark transaction was sent after Dog.Hole, Dog.Dirt and the ilk's
\* hole and dirt were read for that very opportunity, and the values read
\* have Dirt < Hole and ilk.dirt < ilk.hole.
C1_BarkOnlyBelowCeilings ==
  \A k \in 1..Len(barks) :
    /\ barks[k].dog.readFor = barks[k].opp
    /\ barks[k].dog = dogData
    /\ barks[k].dog.data.dirt < barks[k].dog.data.hole
    /\ barks[k].dog.data.ilkDirt < barks[k].dog.data.ilkHole

\* A bark is pending for the second opportunity of a batch, after the first
\* one was refused or barked with a read of its own.
C1_SecondOpportunityBarked ==
  /\ barks # <<>>
  /\ barks[1].opp = 2
  /\ liq.pc = "wait"

\* C2: every take transaction has amount * current_price <= vat_balance * WAD,
\* for the balance read in the executeBid call that sent it.
C2_TakeBound ==
  \A k \in 1..Len(takes) :
    takes[k].amount * takes[k].max <= takes[k].kusdBalance * WAD

\* A take is pending whose amount was limited below the lot.
C2_LimitedTakeSent ==
  /\ takes # <<>>
  /\ takes[1].amount < bid.opps[takes[1].opp].lot
  /\ bid.pc = "wait"

\* C7: when checkVaults is over and the urn read last was read without
\* error, with the spot and rate of its type, the urn is among the
\* opportunities handed to the caller exactly if ink * spot < art * rate and
\* art > 0.
C7_EmittedIffUnsafe ==
  (scan.pc \in {"done", "threw"} /\ lastRead # <<>>) =>
    LET r == lastRead[1] IN
    ((\E k \in 1..Len(checkVaultsResult) :
         /\ checkVaultsResult[k].ilk = r.ilk
         /\ checkVaultsResult[k].urn = r.urn
         /\ checkVaultsResult[k].ink = r.ink
         /\ checkVaultsResult[k].art = r.art)
     <=> (r.ink * r.spot < r.art * r.rate /\ r.art > 0))

\* C8: the known-vault set is exactly the set of the distinct (ilk, urn)
\* pairs of the Frob logs ingested so far, and no urn is held twice.
C8_KnownVaultsAreSeenPairs ==
  /\ KnownPairs = frobSeen
  /\ \A ilk \in DOMAIN urns :
       /\ ilk \in IlkTags
       /\ \A i, j \in 1..Len(urns[ilk]) : urns[ilk][i] = urns[ilk][j] => i = j

\* Both urns of one ilk are known after a scan that ended on a read error.
C8_PairsKeptAcrossFailedScan ==
  /\ scan.pc = "threw"
  /\ \E ilk \in IlkTags : Len(urnsOf(urns, ilk)) = 2

C6_OneTransactionInFlight ==
  Cardinality({c \in CallIds : InFlight(c)}) <= 1

\* C9: in every tick the vault scan and the barks happen only in mode kick or
\* full, the auction scan and the takes only in mode bid or full, the peg
\* arbitrage only in mode peg or full; and a tick that has come to the peg
\* test without an error has run what its mode asks for, and the Flap and
\* the Flop check whatever the mode.
C9_ModeGating ==
  \A c \in CallIds :
    LET t == ticks[c]
        past == t.pc \in {"peg", "pegwait"} \/ (t.pc = "end" /\ "error" \notin t.did)
    IN  /\ (t.pc \in {"vault", "liq"} \/ t.did \cap {"vault", "bark"} # {})
             => mode \in {"kick", "full"}
        /\ (t.pc \in {"auction", "bid"} \/ t.did \cap {"auction", "take"} # {})
             => mode \in {"bid", "full"}
        /\ (t.pc \in {"peg", "pegwait"} \/ "peg" \in t.did)
             => mode \in {"peg", "full"}
        /\ past => {"flap", "flop"} \subseteq t.did
        /\ (past /\ mode \in {"kick", "full"}) => "vault" \in t.did
        /\ (past /\ mode \in {"bid", "full"}) => "auction" \in t.did
        /\ (t.pc = "end" /\ "error" \notin t.did /\ mode \in {"peg", "full"})
             => "peg" \in t.did

\* In mode peg a tick is over that ran the Flap check, the Flop check and the
\* peg arbitrage, and nothing else.
C9_PegModeTickDone ==
  /\ mode = "peg"
  /\ \E c \in CallIds :
       ticks[c].pc = "end" /\ ticks[c].did = {"flap", "flop", "peg"}

\* C10: at most one execution of performCheck is under way.
C10_OneTickAtATime ==
  Cardinality({c \in CallIds : ticks[c].pc # "idle"}) <= 1

\* C11: the process exits on a signal only when no execution of
\* performCheck is under way, so that a tick in progress has run to its end.
C11_ExitAfterTickCompletes ==
  [][(keeperPc' = "exited" /\ keeperPc # "exited")
       => \A c \in CallIds : ticks[c].pc = "idle"]_vars

\* C12: once stop() has been called, no execution of performCheck begins.
C12_NoTickAfterStop ==
  [][stopCalled =>
       \A c \in CallIds : ticks[c].pc = "idle" => ticks'[c].pc = "idle"]_vars

\* C13: in a call of FlopExecutor.executeBid whose read of the keeper's Vat
\* balance is below auction.bid, no dent transaction is sent, the result is
\* the failure "Insufficient KUSD balance in Vat", and bidsExecuted keeps the
\* value it had when the call began.
C13_NoDentBelowBid ==
  (flop.pc # "idle" /\ flop.kusdBalance # <<>> /\ flop.kusdBalance[1] < flop.bid)
    => /\ dents = <<>>
       /\ flop.pc = "done"
       /\ flop.result = "Insufficient KUSD balance in Vat"
       /\ flopBidsExecuted = flop.entry

\* A call refused for its balance with a flopper configured, next to which
\* the same executor has already counted a successful dent.
C13_RefusedWithFlopper ==
  /\ flop.pc = "done" /\ flopperSet
  /\ flop.kusdBalance # <<>> /\ flop.kusdBalance[1] < flop.bid
  /\ flopBidsExecuted > 0

\* C14: a call of FlapExecutor.executeBid sends nothing when the sKLC
\* balance it read is below minBid; with a balance of at least minBid (and a
\* Flapper to approve) its first transaction is the approval of the Flapper
\* for exactly minBid, and its only other transaction is
\* tend(id, auction.lot, minBid), sent after that approval was confirmed: an
\* approval that failed is followed by no transaction.
C14_ApproveThenTend ==
  /\ (flap.sklcBalance = <<>> \/ flap.sklcBalance[1] < flap.minBid) => flapTxs = <<>>
  /\ (flap.pc # "idle" /\ flapperSet /\ flap.sklcBalance # <<>>
        /\ flap.sklcBalance[1] >= flap.minBid)
       => /\ Len(flapTxs) >= 1
          /\ flapTxs[1] = approveTx("flapper", flap.minBid)
  /\ Len(flapTxs) <= 2
  /\ Len(flapTxs) = 2
       => /\ flap.approval = "confirmed"
          /\ flapTxs[2] = tendTx(flap.id, flap.lot, flap.minBid)
  /\ flap.approval = "failed" => Len(flapTxs) = 1

\* A call whose approval failed and which has ended, after an earlier call
\* of the same executor whose tend succeeded.
C14_FailedApprovalEndsCall ==
  /\ flap.pc = "done" /\ flap.approval = "failed"
  /\ flap.minBid > 0
  /\ flapBidsExecuted > 0

\* C15: a tick of the orchestrator has an approve, tend or dent transaction
\* under way only for an opportunity whose profitable flag is set; the Flap
\* opportunities it has passed over have caused no transaction.
C15_DispatchOnlyProfitable ==
  \A c \in CallIds :
    /\ ticks[c].tx \in {"approve", "tend", "dent"} => ticks[c].profitable
    /\ (ticks[c].pc = "flop" /\ ticks[c].n > 0) => ticks[c].tx = None

\* A tick in which two Flap opportunities, none of them profitable, were
\* passed over, while the other tick has a bark in flight.
C15_OpportunitiesPassedOver ==
  \E c, d \in CallIds :
    /\ ticks[c].pc = "flop" /\ ticks[c].n = 2 /\ ticks[c].tx = None
    /\ ticks[d].tx = "bark"

\* C16: a call of checkAndArbitrage that finds the pool price below the lower
\* peg limit and the PSM pocket without gems returns at once with
\* executed = false, having sent no transaction, and the step in which it
\* does so leaves lastArbTime unchanged.
C16_EmptyPocketSendsNothing ==
  [][\A c \in CallIds :
       /\ calls'[c].emptyPocket
            => /\ calls'[c].pc = "done"
               /\ calls'[c].sent = 0
               /\ ~calls'[c].executed
       /\ (calls[c].pc = "check" /\ calls'[c].emptyPocket)
            => lastArbTime' = lastArbTime]_vars

\* A call that met the empty pocket once the cooldown of an earlier trade
\* had run out.
C16_EmptyPocketAfterCooldown ==
  \E c \in CallIds :
    /\ calls[c].emptyPocket /\ calls[c].pc = "done"
    /\ lastArbTime > 0
    /\ calls[c].start - lastArbTime >= arbCooldownMs

\* C17: a call of ensureVatBalance(min) that reads a Vat balance of at least
\* min sends no transaction and returns; one that reads less moves exactly
\* min minus that balance from the wallet (approve, then join); and one that
\* finds less than this amount in the wallet sends no transaction and ends
\* with an error for its caller.
C17_EnsureVatBalance ==
  LET read == vatMgr.vatBalance # <<>>
      short == read /\ vatMgr.vatBalance[1] < vatMgr.minBalance
      needed == vatMgr.minBalance - vatMgr.vatBalance[1]
  IN  /\ (read /\ ~short)
           => vatTxs = <<>> /\ vatMgr.pc = "done" /\ vatMgr.outcome = "returned"
      /\ \A i \in 1..Len(vatTxs) :
           /\ short
           /\ vatTxs[i] = [fn |-> <<"approve", "join">>[i], amount |-> needed]
      /\ (short /\ vatMgr.walletBalance # <<>>
            /\ vatMgr.walletBalance[1] < needed)
           => /\ vatTxs = <<>>
              /\ vatMgr.pc = "done"
              /\ vatMgr.outcome = "thrown"

\* C18: a call of getPrice(c) returns the cached price of c, without a call
\* of the oracle and without a change of the cache, exactly when c has an
\* entry less than CACHE_TTL old; otherwise it calls peek(); when peek() fails
\* or answers valid = false the call fails and no entry of the cache changes;
\* when it answers a valid price, that price times 10^9 is returned and
\* stored for c with the time of the answer, the other entries unchanged.
C18_CacheThenOracle ==
  [][
      /\ (priceCall.pc = "idle" /\ priceCall'.pc # "idle")
          => LET asked == priceCall'.type
                 hit == /\ priceCache[asked] # <<>>
                        /\ now - priceCache[asked][1].timestamp < CACHE_TTL
             IN  /\ priceCache' = priceCache
                 /\ hit => /\ priceCall'.pc = "done"
                           /\ ~priceCall'.peeked
                           /\ priceCall'.result = <<priceCache[asked][1].price>>
                 /\ ~hit => (priceCall'.pc = "peek" /\ priceCall'.peeked)
      /\ (priceCall.pc = "peek" /\ priceCall'.pc # "peek")
          => LET type == priceCall.type
                 read == priceCall'.peek
             IN  IF read = <<>> \/ ~read[1].valid
                 THEN priceCall'.result = <<>> /\ priceCache' = priceCache
                 ELSE /\ priceCall'.result = <<read[1].price * 1000000000>>
                      /\ priceCache'[type] =
                           <<[price |-> read[1].price * 1000000000,
                              timestamp |-> now]>>
                      /\ \A t \in TypeSet \ {type} : priceCache'[t] = priceCache[t]
  ]_vars

\* A call answered from the cache by an entry one unit short of its end,
\* while the entry of the other collateral type has expired.
C18_AnsweredFromCache ==
  /\ priceCall.pc = "done" /\ ~priceCall.peeked /\ priceCall.result # <<>>
  /\ now - priceCache[priceCall.type][1].timestamp = CACHE_TTL - 1
  /\ \E t \in TypeSet \ {priceCall.type} :
       priceCache[t] # <<>> /\ now - priceCache[t][1].timestamp >= CACHE_TTL

C21_AuctionPriceShape ==
  LET top == priceCalc.top
      tic == priceCalc.tic
      duration == priceCalc.tau
      evals == priceCalc.evals
  IN  /\ \A i \in 1..Len(evals) :
           LET t == evals[i].currentTime
               price == evals[i].price
           IN  /\ t <= tic => price = top
               /\ t >= tic + duration => price = 0
               /\ (tic < t /\ t < tic + duration)
                    => /\ price * duration <= top * (tic + duration - t)
                       /\ top * (tic + duration - t) < (price + 1) * duration
      /\ \A i, j \in 1..Len(evals) :
           evals[i].currentTime <= evals[j].currentTime => evals[j].price <= evals[i].price

\* A price of 3 over a duration of 2 is asked at the start (3) and then
\* halfway (1, the floor of 1.5).
C21_HalfwayRoundedDown ==
  /\ priceCalc.top = 3 /\ priceCalc.tic = 0 /\ priceCalc.tau = 2
  /\ priceCalc.evals = <<[currentTime |-> 0, price |-> 3], [currentTime |-> 1, price |-> 1]>>

\* C22: isVaultSafe is true exactly when calculateCollateralizationRatio is
\* at least 100, the ratio being Infinity when art = 0.
C22_SafeIffRatioAtLeast100 ==
  (ratioCalc.ratio # <<>> /\ ratioCalc.safe # <<>>)
    => /\ ratioCalc.safe[1] <=> (ratioCalc.ratio[1].infinite \/ ratioCalc.ratio[1].value >= 100)
       /\ ratioCalc.art = 0 => ratioCalc.ratio[1].infinite

\* A vault of ink 1 at spot 3 with art 2 at rate 2 has ratio 75 and is unsafe.
C22_RatioBelow100Unsafe ==
  /\ ratioCalc.ink = 1 /\ ratioCalc.spot = 3 /\ ratioCalc.art = 2 /\ ratioCalc.rate = 2
  /\ ratioCalc.ratio = <<[infinite |-> FALSE, value |-> 75]>>
  /\ ratioCalc.safe = <<FALSE>>

\* C23: every error raised inside a tick (checkVaults throwing, a send that
\* fails) is caught by the orchestrator: the error counter goes up by one, and
\* the keeper and its timer go on as they were.
C23_ErrorsCaughtAndCounted ==
  [][\A c \in CallIds :
       (\/ "error" \in ticks'[c].did /\ "error" \notin ticks[c].did
        \/ ticks[c].tx \notin {None, "failed"} /\ ticks'[c].tx = "failed")
         => /\ errors' = errors + 1
            /\ keeperPc' = keeperPc
            /\ timerOn' = timerOn]_vars

\* C24: once the handler of a Bark event has read the sale, the auction is
\* tracked if the clipper of its collateral type is configured and the sale
\* has tab > 0.
C24_BarkedAuctionTracked ==
  (/\ barkCall.pc = "done"
   /\ ilkToCollateralType(barkCall.ilk) \in clippers
   /\ barkCall.tab > 0)
    => \E k \in 1..Len(activeAuctions) :
         /\ activeAuctions[k].ilk = barkCall.ilk
         /\ \E i \in 1..Len(activeAuctions[k].auctions) :
              activeAuctions[k].auctions[i] = barkCall.id

C26_ReducedTakeWhenShort ==
  (bid.pc \in {"wait", "delay"} /\ bid.balance # <<>>)
    => LET o == bid.opps[bid.i]
           kusdBalance == bid.balance[1]
       IN  (/\ kusdBalance < (o.lot * o.currentPrice) \div WAD
            /\ (kusdBalance * WAD) \div o.currentPrice > 0
            /\ getClipper(o.ilk) # None)
             => /\ bid.pc = "wait"
                /\ takes # <<>>
                /\ takes[1].amount = (kusdBalance * WAD) \div o.currentPrice

\* C27: a successful take adds floor((amount * marketPrice - amount *
\* currentPrice) / WAD) to totalProfit, and nothing else changes totalProfit.
C27_ProfitOfEachTake ==
  [][
     IF bid.pc = "wait" /\ bid'.pc = "delay" /\ bidsExecuted' = bidsExecuted + 1
     THEN LET amount == takes[1].amount
              currentPrice == takes[1].max
              marketPrice == bid.opps[bid.i].marketPrice
          IN  totalProfit' = totalProfit
                + (amount * marketPrice - amount * currentPrice) \div WAD
     ELSE totalProfit' = totalProfit
  ]_vars

\* C28: within one call of executeBids the opportunities are gone through in
\* order of non-increasing profit percentage, one at a time: a take is
\* pending for the current opportunity only, and every opportunity before it
\* has its result.
C28_TakesInProfitOrder ==
  /\ \A a, b \in 1..Len(bid.opps) :
       a < b => calculateProfitPercentage(bid.opps[a].currentPrice, bid.opps[a].marketPrice)
                  >= calculateProfitPercentage(bid.opps[b].currentPrice, bid.opps[b].marketPrice)
  /\ Len(takes) <= 1
  /\ takes # <<>> => /\ bid.pc = "wait"
                     /\ takes[1].opp = bid.i
                     /\ Len(bid.results) = bid.i - 1

\* The take of the second opportunity is pending after the take of the
\* first, of strictly higher profit, has succeeded.
C28_SecondTakeAfterFirst ==
  /\ bid.pc = "wait"
  /\ bid.i = 2
  /\ takes # <<>>
  /\ bid.results = <<TRUE>>
  /\ calculateProfitPercentage(bid.opps[1].currentPrice, bid.opps[1].marketPrice)
       > calculateProfitPercentage(bid.opps[2].currentPrice, bid.opps[2].marketPrice)

\* C29: in a call of executeLiquidations a bark is sent only for the current
\* opportunity, which has no result yet, in the order of the opportunities
\* given; a bark that has settled, whatever its outcome, is followed by its
\* result and the next opportunity, never by another bark for the same one;
\* every opportunity gone through, failed or not, adds exactly one result,
\* and the call returns one result per opportunity.
C29_OneBarkPerOpportunity ==
  [][
     /\ Len(barks') <= 1
     /\ (barks = <<>> /\ barks' # <<>>)
          => /\ liq.pc = "next" /\ liq'.pc = "wait" /\ liq'.i = liq.i
             /\ barks'[1].opp = liq.i
             /\ barks'[1].ilk = liq.opps[liq.i].ilk
             /\ barks'[1].urn = liq.opps[liq.i].urn
             /\ Len(liq.results) = liq.i - 1
     /\ liq.pc = "wait"
          => /\ liq'.pc = "delay" /\ liq'.i = liq.i
             /\ Len(liq'.results) = liq.i
             /\ barks' = <<>>
     /\ liq.pc = "delay"
          => liq'.pc = "next" /\ liq'.i = liq.i + 1 /\ liq'.results = liq.results
     /\ (liq.pc # "idle" /\ liq'.pc # "idle")
          => /\ liq'.opps = liq.opps
             /\ Len(liq'.results) = IF liq'.pc = "delay" THEN liq'.i ELSE liq'.i - 1
     /\ (liq.pc # "idle" /\ liq'.pc = "idle")
          => Len(liq.results) = Len(liq.opps)
  ]_vars

\* The bark of the second opportunity is pending after the first opportunity
\* ended without success.
C29_SecondBarkAfterFailure ==
  /\ liq.pc = "wait"
  /\ liq.i = 2
  /\ liq.results = <<FALSE>>
  /\ barks # <<>>
  /\ barks[1].opp = 2

\* C30: every pass of the urn loop of checkVaults, whether getUrn failed or
\* not, leaves the scan at the next urn of the same collateral type with the
\* known urns unchanged; a failed read adds nothing and drops nothing, a
\* read without error adds the urn's opportunity exactly if the vault is
\* unsafe; the loop is left only behind the last known urn, and the scan
\* ends normally only behind the last enabled collateral type.
C30_UrnErrorDoesNotAbort ==
  [][
     /\ (scan.pc = "urn" /\ scan' # scan) =>
          LET ilk == collateralTypeToIlk(getCollateralTypes(clippers)[scan.ci])
              set == urnsOf(urns, ilk)
          IN IF scan.ui > Len(set)
             THEN /\ scan'.pc = "ilk" /\ scan'.ci = scan.ci + 1
                  /\ opportunities' = opportunities
             ELSE /\ scan'.pc = "urn" /\ scan'.ci = scan.ci
                  /\ scan'.ui = scan.ui + 1
                  /\ urns' = urns
                  /\ IF lastFailed' = <<ilk, set[scan.ui]>> /\ lastRead' = lastRead
                     THEN opportunities' = opportunities
                     ELSE IF lastRead' = <<>> THEN FALSE
                     ELSE LET r == lastRead'[1] IN
                          /\ r.ilk = ilk /\ r.urn = set[scan.ui]
                          /\ IF r.art > 0 /\ r.ink * r.spot < r.art * r.rate
                             THEN /\ Len(opportunities') = Len(opportunities) + 1
                                  /\ SubSeq(opportunities', 1, Len(opportunities)) = opportunities
                                  /\ opportunities'[Len(opportunities')].ilk = ilk
                                  /\ opportunities'[Len(opportunities')].urn = r.urn
                             ELSE opportunities' = opportunities
     /\ (scan.pc # "done" /\ scan'.pc = "done")
          => scan'.ci > Len(getCollateralTypes(clippers))
  ]_vars

\* The read of the first urn of a collateral type failed, and its second urn
\* has been read after it and emitted in the same scan; both are known.
C30_NextUrnEmittedAfterError ==
  /\ scan.pc = "urn"
  /\ scan.ui = 3
  /\ lastFailed # <<>>
  /\ lastRead # <<>>
  /\ opportunities # <<>>
  /\ LET set == urnsOf(urns, lastFailed[1]) IN
     /\ Len(set) = 2
     /\ lastFailed[2] = set[1]
     /\ lastRead[1].ilk = lastFailed[1]
     /\ lastRead[1].urn = set[2]
     /\ opportunities[Len(opportunities)].ilk = lastFailed[1]
     /\ opportunities[Len(opportunities)].urn = set[2]

\* C31: the head of the loop over the collateral types never ends the scan
\* early: after it, checkVaults is at the urns of the type, at the next
\* type, or behind the last type, with the opportunities collected so far
\* kept; and what checkVaults hands to its caller when it is over is all of
\* the opportunities collected.
C31_IlkErrorSkipsCollateralOnly ==
  [][
     /\ (scan.pc = "ilk" /\ scan' # scan)
          => /\ scan'.pc \in {"ilk", "urn", "done"}
             /\ scan'.pc = "ilk" => scan'.ci = scan.ci + 1
             /\ opportunities' = opportunities
     /\ (scan.pc # "idle" /\ scan'.pc = "idle")
          => checkVaultsResult = opportunities
  ]_vars

C39_NoTakeAtZeroPrice ==
  [][
     /\ \A k \in 1..Len(takes') : takes'[k].max > 0
     /\ \A m \in BidMarketPrices : calculateProfitPercentage(0, m) = 0
     /\ (/\ bid.pc = "next" /\ bid.i <= Len(bid.opps)
         /\ bid' # bid
         /\ bid.opps[bid.i].currentPrice = 0)
          => /\ takes' = takes
             /\ bid'.results = Append(bid.results, FALSE)
             /\ bid'.opps = bid.opps
             /\ \/ bid'.pc = "next" /\ bid'.i = bid.i + 1
                \/ bid'.pc = "delay" /\ bid'.i = bid.i
  ]_vars

\* The take of the second opportunity is pending after the first one, whose
\* price was 0, has failed.
C39_TakeAfterZeroPriceFailure ==
  /\ bid.pc = "wait"
  /\ bid.i = 2
  /\ bid.opps[1].currentPrice = 0
  /\ bid.results = <<FALSE>>
  /\ takes # <<>>
  /\ takes[1].opp = 2

\* C40: when start has returned after a failed query of the historical Frob
\* logs, the live subscription is installed and no vault is known.
C40_FailedHistorySwallowed ==
  startLog = "failed" =>
    /\ vmSubscribed
    /\ urns = EmptyMap
    /\ KnownPairs = {}

\* start has returned after a failed log query.
C40_StartedWithoutHistory ==
  /\ startLog = "failed"
  /\ vmSubscribed
  /\ scan.pc = "idle"

\* C38: when an execution of performCheck comes to its end, with or without
\* an error in one of its phases, every phase of the mode has run: the
\* vault scan in modes full and kick, the collateral-auction scan in modes
\* full and bid, the Flap and Flop checks, and the peg arbitrage in modes
\* full and peg.
C38_LaterPhasesStillRun ==
  \A c \in CallIds :
    ticks[c].pc = "end" =>
      /\ (mode \in {"full", "kick"}) => "vault" \in ticks[c].did
      /\ (mode \in {"full", "bid"}) => "auction" \in ticks[c].did
      /\ "flap" \in ticks[c].did
      /\ "flop" \in ticks[c].did
      /\ (mode \in {"full", "peg"}) => "peg" \in ticks[c].did

====
